---------------------------- MODULE Spec2Model ----------------------------
(***************************************************************************)
(* Via fence generator of RF-tools-KiCAD: the geometry engine of           *)
(* via_fence_generator/viafence.py and the candidate pipeline of           *)
(* ViaFenceAction.Run in viafence_action.py.                               *)
(*                                                                         *)
(* Numbers.  The Python code computes in floats.  The model computes in    *)
(* exact rationals <<num, den>> (den > 0, lowest terms), so every equality *)
(* below is exact where the code's holds up to rounding error.  Paths are  *)
(* taken on the integer grid with segments of integer length (axis         *)
(* parallel or 3-4-5), so that math.hypot is exact; math.atan2 is given in *)
(* thousandths of a degree.                                                *)
(***************************************************************************)
EXTENDS Integers, Sequences, FiniteSets, TLC

VARIABLES
    \* --- PathInterpolator (viafence.py 171-191) -------------------------
    ipc,            \* "new" | "built" | "called" | "raised"
    ipath,          \* the path handed to PathInterpolator
    idist,          \* the distance the interpolator is called with
    interp,         \* the constructed PathInterpolator object (or NoValue)
    iresult,        \* the returned point, or the exception raised
    \* --- one fence path in generateViaFence (viafence.py 363-380) -------
    fpc,            \* "start" | "bends" | "filtered" | "fixed" | "done" | "raised"
    fencePath,      \* the open fence path
    fpPitch,        \* viaPitch
    bendPointIdxList,
    fixPointIdxList,
    fpViaPoints,    \* viaPoints contributed by this fence path
    fpSubPaths,     \* the sub paths the loop of lines 379-380 ran over
    \* --- generateViaFenceMultiRow and Run (viafence.py 284-329,
    \*     viafence_action.py 572-591) ------------------------------------
    pc,             \* "call" | "rows" | "generated" | "deduped" | "safe"
    viaSize,        \* self.viaSize, the via diameter
    pathList,       \* the traces
    viaOffset, viaPitch, numRows, rowSpacing,
    rowIdx,         \* loop variable of generateViaFenceMultiRow
    allViaPoints,   \* accumulator of generateViaFenceMultiRow
    rowVias,        \* what generateViaFence gave in every iteration, in order
    viaPoints,      \* the list Run receives
    uniq,           \* Run's exact-position de-duplicated list
    viaPointsSafe,  \* self.viaPointsSafe after dedupe_points
    clipper,        \* the clipping library's convention: <<start vertex, reversed>>
    \* --- the exact-position de-duplication loop (viafence_action.py
    \*     584-590) --------------------------------------------------------
    dpc,            \* "loop" | "done"
    combinedViaPoints,
    dIdx,           \* number of candidates of combinedViaPoints consumed
    dUniq, dSeen,   \* uniq and seen of the loop
    \* --- the clearance checks of Run (viafence_action.py 196-348,
    \*     592-600) -------------------------------------------------------
    pads,           \* self.boardObj.GetPads(): [pos, size]
    tracks,         \* the tracks of the board: [start, end, width, net]
    existing_vias,  \* the vias of the board: [pos, width]
    clearance,      \* the clearance constraint of the design settings
    selfClearance,  \* self.clearance: << >> while the attribute is not set
    viaNetId,       \* self.viaNetId
    isRemoveChecked,    \* self.isRemoveViasWithClearanceViolationChecked
    candidate_points,   \* argument of filter_vias_precise
    fIdx,           \* number of candidates filter_vias_precise has tested
    accepted,       \* accepted of filter_vias_precise
    rejected_reasons,   \* the four counters of filter_vias_precise
    usedClearance,  \* the clearances handed to via_track_overlaps so far:
                    \* << function, candidate, track, clearance >>
    \* --- calculate_adaptive_segments (viafence.py 482-535) --------------
    radius, arc_angle, max_deviation_mm, min_segments,  \* the arguments
    segments,       \* << >> before the call, then what the call gave
    \* --- a caller of the generator (viafence.py 284-382) ----------------
    verboseFunc,    \* the module global of viafence.py: the callback last set
    callerPathList, \* the list object the caller passes as pathList
    nCalls,         \* calls made so far
    returned,       \* << arguments, result >> of the calls made so far
    \* --- two invocations of generateViaFence in two threads ------------
    parPc,          \* per invocation: 0 before line 334, then the number of
                    \* verbose calls made plus one, two more after the return
    parPitch,       \* per invocation: its viaPitch
    parResult,      \* per invocation: << >>, then what it returned
    received,       \* << callback, invocation, line >> of the calls of verbose
    \* --- fence extraction in generateViaFence (viafence.py 351-356) -----
    spc,            \* "poly" | "touched" | "split"
    splitTrace,     \* the one path inside the polygon, << >> when not recorded
    offsetPoly,     \* the trimmed offset polygon
    leafVertexList, \* the leaf vertices
    buttLineIdxList,    \* the [fromIdx, toIdx] of the touch edges
    fencePaths,     \* what splitPathByPaths gave
    \* --- getLeafVertices (viafence.py 247-262) --------------------------
    lpc,            \* "call" | "returned"
    leafPathList,   \* the argument pathList
    leafVertices, leafVertexSlopes, \* the two lists returned
    \* --- several Runs on one plugin instance (viafence_action.py
    \*     418-629) --------------------------------------------------------
    runNo,          \* Runs started so far
    selfInterRowOffset, \* self.interRowOffset: << >> while the attribute is not set
    txtInterRowOffset,  \* what selfToMainDialog put into the inter-row offset field
    dedupedPoints,  \* what dedupe_points returned in this Run
    placed,         \* the positions createVias placed vias at in this Run
    \* --- the main dialog in Run (viafence_action.py 474-484, 611-629) ---
    dlgPc,          \* "start" | "shown" | "replied" | "handled" | "written" |
                    \* "returned" | "raised"
    mainDlg,        \* self.mainDlg: "none" | "created" | "destroyed"
    reply,          \* what ShowModal returned
    txtViaOffset,   \* the text of the via offset field when the dialog closed
    generationRaised,   \* generateViaFenceMultiRow raised in this Run
    configFile,     \* vf_config.ini: [exists, sections, offset]
    raisedBy        \* the exception that ended Run, or "none"

vars == << ipc, ipath, idist, interp, iresult,
           fpc, fencePath, fpPitch, bendPointIdxList, fixPointIdxList, fpViaPoints,
           fpSubPaths,
           pc, pathList, viaOffset, viaPitch, numRows, rowSpacing, rowIdx,
           allViaPoints, rowVias, viaPoints, uniq, viaSize, viaPointsSafe, clipper,
           dpc, combinedViaPoints, dIdx, dUniq, dSeen,
           pads, tracks, existing_vias, clearance, selfClearance, viaNetId,
           isRemoveChecked, candidate_points, fIdx, accepted, rejected_reasons,
           usedClearance,
           radius, arc_angle, max_deviation_mm, min_segments, segments,
           verboseFunc, callerPathList, nCalls, returned,
           parPc, parPitch, parResult, received,
           spc, splitTrace, offsetPoly, leafVertexList, buttLineIdxList, fencePaths,
           lpc, leafPathList, leafVertices, leafVertexSlopes,
           runNo, selfInterRowOffset, txtInterRowOffset, dedupedPoints, placed,
           dlgPc, mainDlg, reply, txtViaOffset, generationRaised, configFile, raisedBy >>

interpVars == << ipc, ipath, idist, interp, iresult >>
fenceVars == << fpc, fencePath, fpPitch, bendPointIdxList, fixPointIdxList, fpViaPoints,
               fpSubPaths >>
runVars == << pc, pathList, viaOffset, viaPitch, numRows, rowSpacing, rowIdx,
                 allViaPoints, rowVias, viaPoints, uniq, viaSize, viaPointsSafe,
                 clipper >>
dedupVars == << dpc, combinedViaPoints, dIdx, dUniq, dSeen >>
boardVars == << pads, tracks, existing_vias, clearance, viaNetId, isRemoveChecked >>
filterVars == << boardVars, selfClearance, candidate_points, fIdx, accepted,
                rejected_reasons, usedClearance >>
segVars == << radius, arc_angle, max_deviation_mm, min_segments, segments >>
callVars == << verboseFunc, callerPathList, nCalls, returned >>
parVars == << parPc, parPitch, parResult, received >>
splitVars == << spc, splitTrace, offsetPoly, leafVertexList, buttLineIdxList,
               fencePaths >>
leafVars == << lpc, leafPathList, leafVertices, leafVertexSlopes >>
instanceVars == << runNo, selfInterRowOffset, txtInterRowOffset, dedupedPoints, placed >>
dialogVars == << dlgPc, mainDlg, reply, txtViaOffset, generationRaised, configFile,
                raisedBy >>
tailVars == << splitVars, leafVars, instanceVars, dialogVars >>
lateVars == << segVars, callVars, parVars, tailVars >>
restVars == << filterVars, lateVars >>

NoValue == "None"

-----------------------------------------------------------------------------
(* Exact rational arithmetic standing for Python floats.                   *)

Abs(n) == IF n < 0 THEN -n ELSE n

RECURSIVE GCD(_, _)
GCD(a, b) == IF b = 0 THEN a ELSE GCD(b, a % b)

\* the rational n/d (d # 0) in lowest terms with a positive denominator
Rat(n, d) ==
    LET g == GCD(Abs(n), Abs(d))
        s == IF d < 0 THEN -1 ELSE 1
    IN  << (s * n) \div g, Abs(d) \div g >>

R(n) == << n, 1 >>
RAdd(a, b) == Rat(a[1] * b[2] + b[1] * a[2], a[2] * b[2])
RSub(a, b) == Rat(a[1] * b[2] - b[1] * a[2], a[2] * b[2])
RMul(a, b) == Rat(a[1] * b[1], a[2] * b[2])
RDiv(a, b) == Rat(a[1] * b[2], a[2] * b[1])          \* b # 0
RLess(a, b) == a[1] * b[2] < b[1] * a[2]
RLeq(a, b) == a[1] * b[2] <= b[1] * a[2]

\* int(x): truncation toward zero
PyInt(a) == IF a[1] >= 0 THEN a[1] \div a[2] ELSE -((-a[1]) \div a[2])

\* math.floor(x)
PyFloor(a) == a[1] \div a[2]

\* round(x): nearest integer, ties to the even one
PyRound(a) ==
    LET f == a[1] \div a[2]
        r == a[1] - f * a[2]
    IN  IF 2 * r < a[2] THEN f
        ELSE IF 2 * r > a[2] THEN f + 1
        ELSE IF f % 2 = 0 THEN f ELSE f + 1

\* seq[i] for a Python index i (0-based, negative counts from the end)
PyAt(seq, i) == IF i < 0 THEN seq[Len(seq) + i + 1] ELSE seq[i + 1]

\* a point [x, y] with integer coordinates, as a pair of rationals
Pt(x, y) == << R(x), R(y) >>

RECURSIVE Concat(_)
Concat(seqs) == IF seqs = << >> THEN << >> ELSE Head(seqs) \o Concat(Tail(seqs))

\* a raised exception / a returned value
Raise(e) == [exc |-> e, val |-> NoValue]
Return(v) == [exc |-> "none", val |-> v]

-----------------------------------------------------------------------------
(* Path primitives, viafence.py 42-77                                      *)

\* math.hypot on the model's domain (integer results only)
Hypot(dx, dy) ==
    LET lo == IF Abs(dx) > Abs(dy) THEN Abs(dx) ELSE Abs(dy)
    IN  CHOOSE r \in lo .. (Abs(dx) + Abs(dy)) : r * r = dx * dx + dy * dy

IsIntLength(dx, dy) ==
    LET lo == IF Abs(dx) > Abs(dy) THEN Abs(dx) ELSE Abs(dy)
    IN  \E r \in lo .. (Abs(dx) + Abs(dy)) : r * r = dx * dx + dy * dy

\* getLineLength(line): points with integer coordinates
getLineLength(a, b) == Hypot(a[1][1] - b[1][1], a[2][1] - b[2][1])

\* getPathCumDist(path): cumDist[0] = 0.0, then the running sum
RECURSIVE getPathCumDist(_)
getPathCumDist(path) ==
    IF Len(path) <= 1 THEN << R(0) >>
    ELSE LET front == SubSeq(path, 1, Len(path) - 1)
             cd    == getPathCumDist(front)
         IN  Append(cd, RAdd(cd[Len(cd)],
                             R(getLineLength(path[Len(path)], path[Len(path) - 1]))))

-----------------------------------------------------------------------------
(* LinearInterpolator and PathInterpolator, viafence.py 171-191            *)

\* bisect_left(x_list, x): the number of leading entries smaller than x
bisect_left(x_list, x) == Cardinality({ k \in 1 .. Len(x_list) : RLess(x_list[k], x) })

\* LinearInterpolator.__init__: the slopes, or ZeroDivisionError
LinearInterpolatorInit(x_list, y_list) ==
    IF \E k \in 1 .. Len(x_list) - 1 : x_list[k + 1] = x_list[k]
    THEN Raise("ZeroDivisionError")
    ELSE Return([ x_list |-> x_list, y_list |-> y_list,
                  slopes |-> [ k \in 1 .. Len(x_list) - 1 |->
                                 RDiv(RSub(y_list[k + 1], y_list[k]),
                                      RSub(x_list[k + 1], x_list[k])) ] ])

\* the index i = bisect_left(x_list, x) - 1 that __call__ reads with
InterpIndex(x_list, x) == bisect_left(x_list, x) - 1

\* LinearInterpolator.__call__: y_list[i] + slopes[i] * (x - x_list[i]);
\* i = -1 reads the last entries, i past the slopes is an IndexError
LinearInterpolatorCall(li, x) ==
    LET i == InterpIndex(li.x_list, x)
    IN  IF i >= Len(li.slopes)
        THEN Raise("IndexError")
        ELSE Return(RAdd(PyAt(li.y_list, i),
                         RMul(PyAt(li.slopes, i), RSub(x, PyAt(li.x_list, i)))))

\* the x interpolator and the y interpolator as one PathInterpolator, or the
\* exception the first of them raised
BothInterpolators(xi, yi) ==
    IF xi.exc # "none" THEN xi
    ELSE IF yi.exc # "none" THEN yi
    ELSE Return([ xInterp |-> xi.val, yInterp |-> yi.val ])

\* PathInterpolator.__init__(t, path)
PathInterpolatorInit(t, path) ==
    BothInterpolators(LinearInterpolatorInit(t, [ k \in 1 .. Len(path) |-> path[k][1] ]),
                      LinearInterpolatorInit(t, [ k \in 1 .. Len(path) |-> path[k][2] ]))

\* [xInterp(t), yInterp(t)], or the exception the first of them raised
BothCoordinates(xr, yr) ==
    IF xr.exc # "none" THEN xr
    ELSE IF yr.exc # "none" THEN yr
    ELSE Return(<< xr.val, yr.val >>)

\* PathInterpolator.__call__(t)
PathInterpolatorCall(pi, t) ==
    BothCoordinates(LinearInterpolatorCall(pi.xInterp, t),
                    LinearInterpolatorCall(pi.yInterp, t))

-----------------------------------------------------------------------------
(* Angles, in thousandths of a degree.                                     *)

MilliDeg(d) == d * 1000
Pi == MilliDeg(180)

\* math.atan2(dy, dx) on the directions of the model's paths: the axes and
\* the 3-4-5 directions; atan2(0, 0) is 0.0
Atan2(dy, dx) ==
    LET g == GCD(Abs(dx), Abs(dy))
        u == IF g = 0 THEN << 0, 0 >> ELSE << dx \div g, dy \div g >>
    IN  CASE u = << 0, 0 >>   -> 0
          [] u = << 1, 0 >>   -> 0
          [] u = << 4, 3 >>   -> 36870
          [] u = << 3, 4 >>   -> 53130
          [] u = << 0, 1 >>   -> 90000
          [] u = << -3, 4 >>  -> 126870
          [] u = << -4, 3 >>  -> 143130
          [] u = << -1, 0 >>  -> 180000
          [] u = << -4, -3 >> -> -143130
          [] u = << -3, -4 >> -> -126870
          [] u = << 0, -1 >>  -> -90000
          [] u = << 3, -4 >>  -> -53130
          [] u = << 4, -3 >>  -> -36870

\* getLineSlope(line), viafence.py 43-44
getLineSlope(a, b) == Atan2(a[2][1] - b[2][1], a[1][1] - b[1][1])

\* a variant of deviationAngle that takes the difference of the slopes as it is
deviationAngle_Signed(path, idx) ==
    LET prevSlope == getLineSlope(PyAt(path, idx + 1), PyAt(path, idx))
        nextSlope == getLineSlope(PyAt(path, idx - 1), PyAt(path, idx))
    IN  (prevSlope - nextSlope) - Pi

\* deviationAngle of viafence.py 92-94 and 130-132 at Python index idx
deviationAngle(path, idx) ==
    LET prevSlope == getLineSlope(PyAt(path, idx + 1), PyAt(path, idx))
        nextSlope == getLineSlope(PyAt(path, idx - 1), PyAt(path, idx))
    IN  Abs(prevSlope - nextSlope) - Pi

\* the Python index lists range(a, b) as a sequence
PyRange(a, b) == [ k \in 1 .. (IF b > a THEN b - a ELSE 0) |-> a + k - 1 ]

-----------------------------------------------------------------------------
(* Bend points and fixed points, viafence.py 79-142                        *)

tolerance_degree == 20
sharp_angle_deg == 85

\* getPathVertices(path, angleTolerance): the interior vertex indices whose
\* deviation exceeds the tolerance
getPathVertices(path, angleTolerance) ==
    SelectSeq(PyRange(1, Len(path) - 1),
              LAMBDA vertexIdx :
                  Abs(deviationAngle(path, vertexIdx)) > MilliDeg(angleTolerance))

\* the test of filterSharpJunctions that keeps an index
keepsJunction(path, idx) ==
    \/ idx <= 0
    \/ idx >= Len(path) - 1
    \/ Abs(deviationAngle(path, idx)) < MilliDeg(sharp_angle_deg)

\* filterSharpJunctions(path, vertexIndices): lists of fewer than two
\* indices are returned as they are
filterSharpJunctions(path, vertexIndices) ==
    IF Len(vertexIndices) < 2
    THEN vertexIndices
    ELSE SelectSeq(vertexIndices, LAMBDA idx : keepsJunction(path, idx))

\* a variant of fixPointIdxListOf without the last vertex
fixPointIdxListOf_NoLast(bendIdxList) == << 0 >> \o bendIdxList

\* fixPointIdxList = [0] + bendPointIdxList + [-1], viafence.py 372
fixPointIdxListOf(bendIdxList) == << 0 >> \o bendIdxList \o << -1 >>

\* fixPointList, viafence.py 373
fixPointListOf(path, idxList) == [ k \in 1 .. Len(idxList) |-> PyAt(path, idxList[k]) ]

-----------------------------------------------------------------------------
(* Sub paths, viafence.py 50-68                                            *)

\* getSubPath(path, pathSpec): a stop index below the start wraps around
getSubPath(path, pathSpec) ==
    LET listModulus == Len(path)
        stop == IF pathSpec[2] < pathSpec[1] THEN pathSpec[2] + listModulus
                ELSE pathSpec[2]
    IN  [ k \in 1 .. (IF stop + 1 > pathSpec[1] THEN stop + 1 - pathSpec[1] ELSE 0) |->
            PyAt(path, (pathSpec[1] + k - 1) % listModulus) ]

\* getSubPaths(path, pathSpecList): specs with equal ends are skipped
getSubPaths(path, pathSpecList) ==
    LET kept == SelectSeq(pathSpecList, LAMBDA pathSpec : pathSpec[1] # pathSpec[2])
    IN  [ k \in 1 .. Len(kept) |-> getSubPath(path, kept[k]) ]

\* splitPathByPoints(path, splitList)
splitPathByPoints(path, splitList) ==
    getSubPaths(path, [ item \in 1 .. Len(splitList) - 1 |->
                          << splitList[item], splitList[item + 1] >> ])

\* a variant of splitPathByPaths that starts each sub-path where its butt line
\* starts
splitPathByPaths_FromStart(path, splitList) ==
    getSubPaths(path, [ item \in 1 .. Len(splitList) |->
                          << splitList[item][1],
                             splitList[(item % Len(splitList)) + 1][1] >> ])

\* splitPathByPaths(path, splitList): from the end of each butt line to the
\* start of the next one, cyclically
splitPathByPaths(path, splitList) ==
    getSubPaths(path, [ item \in 1 .. Len(splitList) |->
                          << splitList[item][2],
                             splitList[(item % Len(splitList)) + 1][1] >> ])

-----------------------------------------------------------------------------
(* distributeAlongPath, viafence.py 233-243                                *)

\* nPoints = int(math.floor(distList[-1] / minimumSpacing))
\* a variant of nPointsOf that places one point more
nPointsOf_OneMore(total, minimumSpacing) == PyFloor(RDiv(total, R(minimumSpacing))) + 1

\* a variant of nPointsOf that rounds to the nearest number of points
nPointsOf_Nearest(total, minimumSpacing) == PyRound(RDiv(total, R(minimumSpacing)))

nPointsOf(total, minimumSpacing) == PyFloor(RDiv(total, R(minimumSpacing)))

\* the distance of point ptIdx: ptIdx * distList[-1] / nPoints
\* a variant of pointDistance that leaves a gap before the end point
pointDistance_Short(ptIdx, total, nPoints) == RDiv(RMul(R(ptIdx), total), R(nPoints + 1))

pointDistance(ptIdx, total, nPoints) == RDiv(RMul(R(ptIdx), total), R(nPoints))

\* the values of a list of results, or the first exception among them
AllOrFirstRaise(pts) ==
    IF \E k \in 1 .. Len(pts) : pts[k].exc # "none"
    THEN pts[CHOOSE k \in 1 .. Len(pts) :
               /\ pts[k].exc # "none"
               /\ \A j \in 1 .. k - 1 : pts[j].exc = "none"]
    ELSE Return([ k \in 1 .. Len(pts) |-> pts[k].val ])

\* [ptInterp(ptIdx * distList[-1]/nPoints) for ptIdx in range(1, nPoints)]
interpolateAll(ptInterp, total, nPoints) ==
    IF ptInterp.exc # "none" THEN ptInterp
    ELSE AllOrFirstRaise([ k \in 1 .. (IF nPoints > 1 THEN nPoints - 1 ELSE 0) |->
                             PathInterpolatorCall(ptInterp.val,
                                                  pointDistance(k, total, nPoints)) ])

\* distributeAlongPath once distList is known
distributeWith(distList, path, minimumSpacing) ==
    interpolateAll(PathInterpolatorInit(distList, path),
                   distList[Len(distList)],
                   nPointsOf(distList[Len(distList)], minimumSpacing))

distributeAlongPath(path, minimumSpacing) ==
    IF minimumSpacing = 0 THEN Raise("ZeroDivisionError")
    ELSE distributeWith(getPathCumDist(path), path, minimumSpacing)

\* viaPoints += ..., unless one of the two raised
ConcatResults(first, rest) ==
    IF first.exc # "none" THEN first
    ELSE IF rest.exc # "none" THEN rest
    ELSE Return(first.val \o rest.val)

\* the loop of viafence.py 379-380 over the sub paths between fixed points
RECURSIVE distributeSubPaths(_, _)
distributeSubPaths(subPaths, viaPitchArg) ==
    IF subPaths = << >> THEN Return(<< >>)
    ELSE ConcatResults(distributeAlongPath(Head(subPaths), viaPitchArg),
                       distributeSubPaths(Tail(subPaths), viaPitchArg))

\* the fixed points of a fence path, then the points distributed between them
placeWithFixPoints(path, fixIdx, viaPitchArg) ==
    ConcatResults(Return(fixPointListOf(path, fixIdx)),
                  distributeSubPaths(splitPathByPoints(path, fixIdx), viaPitchArg))

\* the via points of one fence path, viafence.py 363-380
placeOnFencePath(path, viaPitchArg) ==
    placeWithFixPoints(path,
        fixPointIdxListOf(filterSharpJunctions(path,
                                               getPathVertices(path, tolerance_degree))),
        viaPitchArg)

-----------------------------------------------------------------------------
(* Leaf vertices and butt lines, viafence.py 144-168 and 245-262           *)

\* a <= v <= b or b <= v <= a
Between(a, v, b) == (RLeq(a, v) /\ RLeq(v, b)) \/ (RLeq(b, v) /\ RLeq(v, a))

\* isPointOnLine(point, line): inside the bounding box and cross product 0
isPointOnLine(point, l0, l1) ==
    LET cross == RSub(RMul(RSub(l1[2], point[2]), RSub(l0[1], point[1])),
                      RMul(RSub(l1[1], point[1]), RSub(l0[2], point[2])))
    IN  /\ Between(l0[1], point[1], l1[1])
        /\ Between(l0[2], point[2], l1[2])
        /\ cross = R(0)

\* getPathsThroughPoints(path, pointList): the [fromIdx, toIdx] of every
\* polygon edge that touches a point of the list
getPathsThroughPoints(path, pointList) ==
    LET edges == [ k \in 1 .. Len(path) |-> << k - 1, k % Len(path) >> ]
    IN  SelectSeq(edges,
                  LAMBDA e : \E j \in 1 .. Len(pointList) :
                      isPointOnLine(pointList[j], PyAt(path, e[1]), PyAt(path, e[2])))

\* a variant of CountVertex that counts among the ends of the paths only
CountVertex_EndsOnly(pathListArg, v) ==
    LET allVertices == Concat([ k \in 1 .. Len(pathListArg) |->
                                  << PyAt(pathListArg[k], 0), PyAt(pathListArg[k], -1) >> ])
    IN  Cardinality({ k \in 1 .. Len(allVertices) : allVertices[k] = v })

\* allVertices.count(v)
CountVertex(pathListArg, v) ==
    LET allVertices == Concat(pathListArg)
    IN  Cardinality({ k \in 1 .. Len(allVertices) : allVertices[k] = v })

\* the two ends of a path (vertexIdx 0 and -1), each with its neighbour
PathEnds(path) ==
    << [v |-> PyAt(path, 0),  n |-> PyAt(path, 1)],
       [v |-> PyAt(path, -1), n |-> PyAt(path, -2)] >>

\* getLeafVertices(pathList): for every path its first, then its last
\* vertex if it occurs once in the whole list, each with the slope of the
\* line from the leaf to its neighbour
getLeafVertices(pathListArg) ==
    LET cands == Concat([ k \in 1 .. Len(pathListArg) |-> PathEnds(pathListArg[k]) ])
        leaves == SelectSeq(cands, LAMBDA c : CountVertex(pathListArg, c.v) = 1)
    IN  [ vertices |-> [ k \in 1 .. Len(leaves) |-> leaves[k].v ],
          slopes   |-> [ k \in 1 .. Len(leaves) |-> getLineSlope(leaves[k].n, leaves[k].v) ] ]

-----------------------------------------------------------------------------
(* The polygon clipping library (pyclipper) behind viafence.py 193-231 and *)
(* 270-282, for one straight axis-parallel trace: the round-capped offset  *)
(* polygon is the set of points nearer than the offset to the trace, and   *)
(* trimming it flush at the two leaf vertices leaves the rectangle whose    *)
(* long sides run at the offset on either side of the trace.  The library  *)
(* chooses the vertex a polygon starts at and its orientation; it is       *)
(* deterministic, so one choice holds for all the calls of a Run.          *)

Min(a, b) == IF a < b THEN a ELSE b
Max(a, b) == IF a > b THEN a ELSE b

\* the choices of the library: first vertex 0..3, orientation kept or reversed
LibChoices == (0 .. 3) \X {FALSE, TRUE}

\* expandPathsToPolygons(pathList, offset): nothing for no path or an offset
\* that is not positive, else the one polygon around the trace
expandPathsToPolygons(pathListArg, offset) ==
    IF pathListArg = << >> \/ offset <= 0 THEN << >>
    ELSE << [ trace |-> pathListArg[1], offset |-> offset ] >>

\* isPointInPolygon(point, polygon): strictly nearer than the offset to the
\* trace (integer coordinates)
isPointInPolygon(point, poly) ==
    LET a  == poly.trace[1]
        b  == poly.trace[Len(poly.trace)]
        px == point[1][1]
        py == point[2][1]
        dx == Max(0, Max(Min(a[1][1], b[1][1]) - px, px - Max(a[1][1], b[1][1])))
        dy == Max(0, Max(Min(a[2][1], b[2][1]) - py, py - Max(a[2][1], b[2][1])))
    IN  dx * dx + dy * dy < poly.offset * poly.offset

\* getPathsInsidePolygon(pathList, polygon)
getPathsInsidePolygon(pathListArg, poly) ==
    SelectSeq(pathListArg,
              LAMBDA path : \A k \in 1 .. Len(path) : isPointInPolygon(path[k], poly))

\* trimFlushPolygonAtVertices(...)[0]: the rectangle, counter-clockwise from
\* its lower left corner, then started and oriented as the library chooses
trimFlushPolygonAtVertices(poly, lib) ==
    LET a    == poly.trace[1]
        b    == poly.trace[Len(poly.trace)]
        d    == poly.offset
        horizontal == a[2] = b[2]
        x1   == Min(a[1][1], b[1][1]) - (IF horizontal THEN 0 ELSE d)
        x2   == Max(a[1][1], b[1][1]) + (IF horizontal THEN 0 ELSE d)
        y1   == Min(a[2][1], b[2][1]) - (IF horizontal THEN d ELSE 0)
        y2   == Max(a[2][1], b[2][1]) + (IF horizontal THEN d ELSE 0)
        ccw  == << Pt(x1, y1), Pt(x2, y1), Pt(x2, y2), Pt(x1, y2) >>
        rot  == [ k \in 1 .. 4 |-> ccw[((k - 1 + lib[1]) % 4) + 1] ]
    IN  IF lib[2] THEN [ k \in 1 .. 4 |-> rot[5 - k] ] ELSE rot

-----------------------------------------------------------------------------
(* generateViaFence, viafence.py 332-382                                   *)

\* the via points of a list of fence paths, in order
RECURSIVE placeOnFencePaths(_, _)
placeOnFencePaths(fencePathsArg, viaPitchArg) ==
    IF fencePathsArg = << >> THEN Return(<< >>)
    ELSE ConcatResults(placeOnFencePath(Head(fencePathsArg), viaPitchArg),
                       placeOnFencePaths(Tail(fencePathsArg), viaPitchArg))

\* the fence paths of a trimmed polygon, viafence.py 355-356
fencePathsOf(offsetPolyArg, leafVertexListArg) ==
    splitPathByPaths(offsetPolyArg, getPathsThroughPoints(offsetPolyArg, leafVertexListArg))

\* viafence.py 351-380 for one offset polygon and the paths inside it
fenceOfLocalPaths(localPathList, poly, viaPitchArg, lib) ==
    IF Len(localPathList) = 0 THEN Return(<< >>)
    ELSE placeOnFencePaths(fencePathsOf(trimFlushPolygonAtVertices(poly, lib),
                                        getLeafVertices(localPathList).vertices),
                           viaPitchArg)

\* the body of the loop over the offset polygons, viafence.py 350-380
fenceOfPolygon(pathListArg, poly, viaPitchArg, lib) ==
    fenceOfLocalPaths(getPathsInsidePolygon(pathListArg, poly), poly, viaPitchArg, lib)

\* the loop over the offset polygons (at most one for one trace)
fenceOfPolygons(pathListArg, polys, viaPitchArg, lib) ==
    IF polys = << >> THEN Return(<< >>)
    ELSE fenceOfPolygon(pathListArg, polys[1], viaPitchArg, lib)

\* generateViaFence once the zero length tracks are removed
fenceOfKept(kept, viaOffsetArg, viaPitchArg, lib) ==
    fenceOfPolygons(kept, expandPathsToPolygons(kept, viaOffsetArg), viaPitchArg, lib)

generateViaFence(pathListArg, viaOffsetArg, viaPitchArg, lib) ==
    IF \E k \in 1 .. Len(pathListArg) : Len(pathListArg[k]) < 2
    THEN Raise("IndexError")
    ELSE fenceOfKept(SelectSeq(pathListArg,
                               LAMBDA path : getLineLength(path[1], path[2]) > 0),
                     viaOffsetArg, viaPitchArg, lib)

-----------------------------------------------------------------------------
(* generateViaFenceMultiRow, viafence.py 284-329                           *)

\* rowSpacing = int(viaPitch * 1.5) when none is given, viafence.py 303-305;
\* the argument is << >> for None and << n >> for the number n
\* a variant of rowSpacingOf that puts every row on the first one
rowSpacingOf_Zero(rowSpacingArg, viaPitchArg) == 0

rowSpacingOf(rowSpacingArg, viaPitchArg) ==
    IF rowSpacingArg = << >> THEN PyInt(Rat(viaPitchArg * 3, 2)) ELSE rowSpacingArg[1]

\* current_row_offset = viaOffset + (rowIdx * rowSpacing), viafence.py 312
\* a variant of current_row_offset that starts one row further out
current_row_offset_Next(viaOffsetArg, rowIdxArg, spacing) ==
    viaOffsetArg + ((rowIdxArg + 1) * spacing)

current_row_offset(viaOffsetArg, rowIdxArg, spacing) == viaOffsetArg + (rowIdxArg * spacing)

-----------------------------------------------------------------------------
(* The exact-position de-duplication of Run, viafence_action.py 584-590    *)

\* a variant of dedupKey that rounds to the nearest integer
dedupKey_Rounded(v) == << PyRound(v[1]), PyRound(v[2]) >>

\* key = (int(v[0]), int(v[1]))
dedupKey(v) == << PyInt(v[1]), PyInt(v[2]) >>

\* one iteration of the loop over combinedViaPoints
dedupStep(st, v) ==
    IF dedupKey(v) \notin st.seen
    THEN [ uniq |-> Append(st.uniq, v), seen |-> st.seen \cup { dedupKey(v) } ]
    ELSE st

RECURSIVE dedupLoop(_, _)
dedupLoop(st, points) ==
    IF points = << >> THEN st ELSE dedupLoop(dedupStep(st, Head(points)), Tail(points))

dedupExact(points) == dedupLoop([ uniq |-> << >>, seen |-> {} ], points).uniq

-----------------------------------------------------------------------------
(* dedupe_points, viafence_action.py 40-51, and distance, 33-34            *)

\* a variant of distanceWithin that leaves out the distance tol itself
distanceWithin_Strict(p1, p2, tol) ==
    (p1[1] - p2[1]) * (p1[1] - p2[1]) + (p1[2] - p2[2]) * (p1[2] - p2[2]) < tol * tol

\* distance(p1, p2) <= tol for points with integer coordinates and tol >= 0
distanceWithin(p1, p2, tol) ==
    (p1[1] - p2[1]) * (p1[1] - p2[1]) + (p1[2] - p2[2]) * (p1[2] - p2[2]) <= tol * tol

\* vx, vy = int(v[0]), int(v[1])
wxPoint(v) == << PyInt(v[1]), PyInt(v[2]) >>

RECURSIVE dedupePointsLoop(_, _, _)
dedupePointsLoop(unique, points, tol) ==
    IF points = << >> THEN unique
    ELSE dedupePointsLoop(
             IF \E k \in 1 .. Len(unique) :
                    distanceWithin(wxPoint(Head(points)), wxPoint(unique[k]), tol)
             THEN unique
             ELSE Append(unique, Head(points)),
             Tail(points), tol)

dedupe_points(points, tol) == dedupePointsLoop(<< >>, points, tol)

\* int(self.viaSize * 1.05)
dedupeTolerance(size) == PyInt(Rat(size * 105, 100))

-----------------------------------------------------------------------------
(* Input paths: a start vertex followed by steps on the integer grid.      *)

RECURSIVE BuildPath(_, _)
BuildPath(start, steps) ==
    IF steps = << >> THEN << start >>
    ELSE LET front == BuildPath(start, SubSeq(steps, 1, Len(steps) - 1))
             last  == front[Len(front)]
             s     == steps[Len(steps)]
         IN  Append(front, << RAdd(last[1], R(s[1])), RAdd(last[2], R(s[2])) >>)

PathsFrom(start, stepSet, maxSegs) ==
    UNION { { BuildPath(start, st) : st \in [1 .. n -> stepSet] } : n \in 1 .. maxSegs }

PathLength(path) == LET cd == getPathCumDist(path) IN cd[Len(cd)]

HasNoZeroSegment(path) == \A k \in 1 .. Len(path) - 1 : path[k + 1] # path[k]

-----------------------------------------------------------------------------
(* Idle values of the components a specification does not exercise.        *)

IdleInterp ==
    /\ ipc = "idle" /\ ipath = << >> /\ idist = R(0)
    /\ interp = NoValue /\ iresult = NoValue
IdleFence ==
    /\ fpc = "idle" /\ fencePath = << >> /\ fpPitch = 0
    /\ bendPointIdxList = << >> /\ fixPointIdxList = << >> /\ fpViaPoints = << >>
    /\ fpSubPaths = << >>
IdleRun ==
    /\ pc = "idle" /\ pathList = << >> /\ viaOffset = 0 /\ viaPitch = 0
    /\ numRows = 0 /\ rowSpacing = << >> /\ rowIdx = 0
    /\ allViaPoints = << >> /\ rowVias = << >> /\ viaPoints = << >> /\ uniq = << >>
    /\ viaSize = 0 /\ viaPointsSafe = << >> /\ clipper = << 0, FALSE >>
IdleDedup ==
    /\ dpc = "idle" /\ combinedViaPoints = << >> /\ dIdx = 0
    /\ dUniq = << >> /\ dSeen = {}
NoRejections == [ pad |-> 0, same_net_track |-> 0, diff_net_track |-> 0, existing_via |-> 0 ]
IdleFilter ==
    /\ pads = << >> /\ tracks = << >> /\ existing_vias = << >>
    /\ clearance = 0 /\ selfClearance = << >> /\ viaNetId = 0
    /\ isRemoveChecked = FALSE /\ candidate_points = << >> /\ fIdx = 0
    /\ accepted = << >> /\ rejected_reasons = NoRejections /\ usedClearance = {}
IdleSegments ==
    /\ radius = 0 /\ arc_angle = 0 /\ max_deviation_mm = R(0) /\ min_segments = 0
    /\ segments = << >>
IdleCalls ==
    /\ verboseFunc = "unset" /\ callerPathList = << >> /\ nCalls = 0 /\ returned = {}
IdleParallel ==
    /\ parPc = << >> /\ parPitch = << >> /\ parResult = << >> /\ received = {}
IdleSplit ==
    /\ spc = "idle" /\ splitTrace = << >> /\ offsetPoly = << >>
    /\ leafVertexList = << >> /\ buttLineIdxList = << >> /\ fencePaths = << >>
IdleLeaves ==
    /\ lpc = "idle" /\ leafPathList = << >> /\ leafVertices = << >>
    /\ leafVertexSlopes = << >>
IdleInstance ==
    /\ runNo = 0 /\ selfInterRowOffset = << >> /\ txtInterRowOffset = 0
    /\ dedupedPoints = << >> /\ placed = << >>
IdleDialog ==
    /\ dlgPc = "idle" /\ mainDlg = "none" /\ reply = "none" /\ txtViaOffset = ""
    /\ generationRaised = FALSE /\ raisedBy = "none"
    /\ configFile = [ exists |-> FALSE, sections |-> {}, offset |-> "" ]
IdleTail == IdleSplit /\ IdleLeaves /\ IdleInstance /\ IdleDialog
IdleLate == IdleSegments /\ IdleCalls /\ IdleParallel /\ IdleTail
IdleRest == IdleFilter /\ IdleLate

-----------------------------------------------------------------------------
(* SpecInterp: building a PathInterpolator over a path and calling it.     *)

\* longest path handed to the interpolator, in segments
MaxInterpSegs == 2

\* steps of the interpolated paths; <<0, 0>> repeats a vertex
InterpSteps == { <<1, 0>>, <<2, 0>>, <<0, 1>>, <<-1, 0>>, <<3, 4>>, <<0, 0>> }

InterpPaths == PathsFrom(Pt(0, 0), InterpSteps, MaxInterpSegs)

\* distances in half units from -1 to one past the end of the path
InterpDistances(path) == { Rat(n, 2) : n \in -2 .. (2 * PathLength(path)[1] + 2) }

InitInterp ==
    /\ ipc = "new"
    /\ ipath \in InterpPaths
    /\ idist \in InterpDistances(ipath)
    /\ interp = NoValue /\ iresult = NoValue
    /\ IdleFence /\ IdleRun /\ IdleDedup /\ IdleRest

\* ptInterp = PathInterpolator(distList, path), viafence.py 242
InterpBuild ==
    /\ ipc = "new"
    /\ LET r == PathInterpolatorInit(getPathCumDist(ipath), ipath)
       IN  IF r.exc = "none"
           THEN /\ ipc' = "built" /\ interp' = r.val /\ iresult' = iresult
           ELSE /\ ipc' = "raised" /\ interp' = interp /\ iresult' = r
    /\ UNCHANGED << ipath, idist, fenceVars, runVars, dedupVars, restVars >>

\* ptInterp(t), viafence.py 189-191
InterpCall ==
    /\ ipc = "built"
    /\ LET r == PathInterpolatorCall(interp, idist)
       IN  /\ ipc' = IF r.exc = "none" THEN "called" ELSE "raised"
           /\ iresult' = r
    /\ UNCHANGED << ipath, idist, interp, fenceVars, runVars, dedupVars, restVars >>

NextInterp == InterpBuild \/ InterpCall

SpecInterp == InitInterp /\ [][NextInterp]_vars

\* C2: for every path with at least 2 vertices, interpolating at distance 0
\* returns exactly the first vertex and interpolating at cumDist[last]
\* returns exactly the last vertex.
C2_InterpolateEndpoints ==
    (ipc \in {"called", "raised"} /\ HasNoZeroSegment(ipath)) =>
        /\ (idist = R(0)) => (iresult = Return(ipath[1]))
        /\ (idist = PathLength(ipath)) => (iresult = Return(ipath[Len(ipath)]))

\* C3: interpolating at a negative distance returns the first vertex and
\* interpolating beyond the total length returns the last vertex (the
\* distance is clamped to [0, cumDist[last]]).
C3_InterpolateClamps ==
    (ipc \in {"called", "raised"} /\ HasNoZeroSegment(ipath)) =>
        /\ RLess(idist, R(0)) => (iresult = Return(ipath[1]))
        /\ RLess(PathLength(ipath), idist) => (iresult = Return(ipath[Len(ipath)]))

\* C4: building and evaluating the interpolator never raises for a path with
\* at least 2 vertices, zero-length segments included, at a distance in
\* range; a distance inside a zero-length segment returns its start point.
C4_InterpolatorTotal ==
    (RLess(R(0), PathLength(ipath)) /\ RLeq(R(0), idist)
       /\ RLeq(idist, PathLength(ipath))) =>
        /\ ipc # "raised"
        /\ \A k \in 1 .. Len(ipath) - 1 :
             LET cd == getPathCumDist(ipath)
             IN  (ipc = "called" /\ cd[k] = cd[k + 1] /\ idist = cd[k]
                    /\ \A j \in 1 .. k - 1 : RLess(cd[j], cd[k]))
                     => (iresult = Return(ipath[k]))

-----------------------------------------------------------------------------
(* SpecFence: via placement on one fence path, viafence.py 363-380.  The   *)
(* fence paths come out of the polygon clipping library; here they are any *)
(* polyline over the step set.                                             *)

\* longest fence path, in segments
MaxFenceSegs == 3
\* largest via pitch
MaxPitch == 3

FenceSteps ==
    { <<1, 0>>, <<2, 0>>, <<0, 1>>, <<0, 2>>, <<-1, 0>>, <<-2, 0>>, <<0, -1>>, <<0, -2>>,
      <<4, 3>>, <<3, 4>>, <<-3, -4>> }

FencePaths == PathsFrom(Pt(0, 0), FenceSteps, MaxFenceSegs)

InitFence ==
    /\ fpc = "start"
    /\ fencePath \in FencePaths
    /\ fpPitch \in 1 .. MaxPitch
    /\ bendPointIdxList = << >> /\ fixPointIdxList = << >> /\ fpViaPoints = << >>
    /\ fpSubPaths = << >>
    /\ IdleInterp /\ IdleRun /\ IdleDedup /\ IdleRest

\* bendPointIdxList = getPathVertices(fencePath, tolerance_degree)
FindBends ==
    /\ fpc = "start"
    /\ bendPointIdxList' = getPathVertices(fencePath, tolerance_degree)
    /\ fpc' = "bends"
    /\ UNCHANGED << fencePath, fpPitch, fixPointIdxList, fpViaPoints, fpSubPaths,
                    interpVars, runVars, dedupVars, restVars >>

\* bendPointIdxList = filterSharpJunctions(fencePath, bendPointIdxList)
FilterSharp ==
    /\ fpc = "bends"
    /\ bendPointIdxList' = filterSharpJunctions(fencePath, bendPointIdxList)
    /\ fpc' = "filtered"
    /\ UNCHANGED << fencePath, fpPitch, fixPointIdxList, fpViaPoints, fpSubPaths,
                    interpVars, runVars, dedupVars, restVars >>

\* fixPointIdxList, fixPointList; viaPoints += fixPointList
EmitFixPoints ==
    /\ fpc = "filtered"
    /\ fixPointIdxList' = fixPointIdxListOf(bendPointIdxList)
    /\ fpViaPoints' = fpViaPoints \o fixPointListOf(fencePath, fixPointIdxList')
    /\ fpc' = "fixed"
    /\ UNCHANGED << fencePath, fpPitch, bendPointIdxList, fpSubPaths,
                    interpVars, runVars, dedupVars, restVars >>

\* for subPath in splitPathByPoints(...): viaPoints += distributeAlongPath(...)
DistributeBetween ==
    /\ fpc = "fixed"
    /\ fpSubPaths' = splitPathByPoints(fencePath, fixPointIdxList)
    /\ LET r == distributeSubPaths(fpSubPaths', fpPitch)
       IN  IF r.exc = "none"
           THEN /\ fpViaPoints' = fpViaPoints \o r.val /\ fpc' = "done"
           ELSE /\ fpViaPoints' = fpViaPoints /\ fpc' = "raised"
    /\ UNCHANGED << fencePath, fpPitch, bendPointIdxList, fixPointIdxList,
                    interpVars, runVars, dedupVars, restVars >>

NextFence == FindBends \/ FilterSharp \/ EmitFixPoints \/ DistributeBetween

SpecFence == InitFence /\ [][NextFence]_vars

\* a path whose segments all run in one direction
IsStraight(path) ==
    \A k \in 1 .. Len(path) - 2 :
        getLineSlope(path[k + 1], path[k]) = getLineSlope(path[k + 2], path[k + 1])

\* the point at fraction num/den of the way from a to b
Along(a, b, num, den) ==
    << RAdd(a[1], RMul(Rat(num, den), RSub(b[1], a[1]))),
       RAdd(a[2], RMul(Rat(num, den), RSub(b[2], a[2]))) >>

\* C1: on a straight fence path of length L with pitch 0 < p < L the
\* candidates are the two end points and floor(L/p) - 1 interior points, the
\* k-th of them k/floor(L/p) of the way from the first end point to the
\* last: strictly between them, consecutive ones L/floor(L/p) apart.
C1_StraightDistribution ==
    LET L     == PathLength(fencePath)[1]
        n     == L \div fpPitch
        first == fencePath[1]
        last  == fencePath[Len(fencePath)]
    IN  (fpc \in {"done", "raised"} /\ IsStraight(fencePath) /\ fpPitch < L) =>
            /\ fpc = "done"
            /\ Len(fpViaPoints) = 2 + (n - 1)
            /\ fpViaPoints[1] = first
            /\ fpViaPoints[2] = last
            /\ \A k \in 1 .. n - 1 : fpViaPoints[2 + k] = Along(first, last, k, n)

\* C1 happens: a straight path of several segments with interior candidates
\* at fractional positions
C1_Witness ==
    /\ fpc = "done" /\ IsStraight(fencePath) /\ Len(fencePath) >= 3
    /\ fpPitch < PathLength(fencePath)[1]
    /\ PathLength(fencePath)[1] % fpPitch # 0
    /\ Len(fpViaPoints) >= 4

\* C5: no interior vertex whose deviation angle exceeds 85 degrees is in the
\* fixed-point list, however many bend points the fence path has.
C5_SharpJunctionsExcluded ==
    fpc \in {"fixed", "done"} =>
        \A idx \in 1 .. Len(fencePath) - 2 :
            Abs(deviationAngle(fencePath, idx)) > MilliDeg(sharp_angle_deg)
                => \A k \in 1 .. Len(fixPointIdxList) : fixPointIdxList[k] # idx

-----------------------------------------------------------------------------
(* Spec: Run's candidate pipeline on one straight axis-parallel trace:     *)
(* generateViaFenceMultiRow (viafence.py 284-329) as called at             *)
(* viafence_action.py 572-580, then the exact-position de-duplication of   *)
(* viafence_action.py 584-590.                                             *)

\* longest trace of the small cases
MaxLen == 5
\* largest via offset of the small cases
MaxOffset == 2
\* largest number of rows
MaxRows == 2
\* largest row spacing handed in
MaxSpacing == 1
\* largest via diameter
MaxViaSize == 1

\* the straight-trace scenario: (0,0) to (10000,0), offset 500, pitch 1000
ScenarioLength == 10000
ScenarioOffset == 500
ScenarioPitch == 1000

TraceStarts == { << -2, 1 >> }
TraceDirs == { << 1, 0 >>, << 0, 1 >>, << -1, 0 >> }

Trace(start, dir, len) ==
    << Pt(start[1], start[2]), Pt(start[1] + dir[1] * len, start[2] + dir[2] * len) >>

\* trace, offset, pitch
RunCases ==
    { << Trace(st, dir, len), off, p >> :
        st \in TraceStarts, dir \in TraceDirs, len \in 1 .. MaxLen,
        off \in 1 .. MaxOffset, p \in 1 .. MaxPitch }
    \cup { << Trace(<< 0, 0 >>, << 1, 0 >>, ScenarioLength), ScenarioOffset, ScenarioPitch >> }

Init ==
    /\ pc = "call"
    /\ \E c \in RunCases :
        /\ pathList = << c[1] >>
        /\ viaOffset = c[2]
        /\ viaPitch = c[3]
    /\ numRows \in 0 .. MaxRows
    /\ rowSpacing \in { << >> } \cup { << n >> : n \in 0 .. MaxSpacing }
    /\ viaSize \in 0 .. MaxViaSize
    /\ rowIdx = 0
    /\ allViaPoints = << >> /\ rowVias = << >> /\ viaPoints = << >> /\ uniq = << >>
    /\ viaPointsSafe = << >>
    /\ clipper \in LibChoices
    /\ IdleInterp /\ IdleFence /\ IdleDedup /\ IdleRest

\* what Run keeps of a call to the generator: its result, or [] when it raised
\* (viafence_action.py 578-580)
caught(r) == IF r.exc = "none" THEN r.val ELSE << >>

\* numRows <= 1: return generateViaFence(pathList, viaOffset, viaPitch)
SingleRow ==
    /\ pc = "call" /\ numRows <= 1
    /\ rowVias' = << generateViaFence(pathList, viaOffset, viaPitch, clipper) >>
    /\ viaPoints' = caught(rowVias'[1])
    /\ pc' = "generated"
    /\ UNCHANGED << pathList, viaOffset, viaPitch, numRows, rowSpacing, rowIdx,
                    allViaPoints, uniq, viaSize, viaPointsSafe, clipper,
                    interpVars, fenceVars, dedupVars, restVars >>

\* numRows >= 2: allViaPoints = [], enter the loop over the rows
StartRows ==
    /\ pc = "call" /\ numRows > 1
    /\ allViaPoints' = << >> /\ rowIdx' = 0 /\ pc' = "rows"
    /\ UNCHANGED << pathList, viaOffset, viaPitch, numRows, rowSpacing,
                    rowVias, viaPoints, uniq, viaSize, viaPointsSafe, clipper,
                    interpVars, fenceVars, dedupVars, restVars >>

\* one iteration of the loop over the rows, viafence.py 310-327
RowStep ==
    /\ pc = "rows" /\ rowIdx < numRows
    /\ rowVias' = Append(rowVias,
                         generateViaFence(pathList,
                             current_row_offset(viaOffset, rowIdx,
                                                rowSpacingOf(rowSpacing, viaPitch)),
                             viaPitch, clipper))
    /\ LET row_vias == rowVias'[Len(rowVias')]
       IN  IF row_vias.exc = "none"
           THEN /\ allViaPoints' = allViaPoints \o row_vias.val
                /\ rowIdx' = rowIdx + 1
                /\ UNCHANGED << pc, viaPoints >>
           ELSE /\ viaPoints' = << >> /\ pc' = "generated"
                /\ UNCHANGED << allViaPoints, rowIdx >>
    /\ UNCHANGED << pathList, viaOffset, viaPitch, numRows, rowSpacing, uniq,
                    viaSize, viaPointsSafe, clipper, interpVars, fenceVars, dedupVars, restVars >>

\* return allViaPoints
RowsReturn ==
    /\ pc = "rows" /\ rowIdx >= numRows
    /\ viaPoints' = allViaPoints /\ pc' = "generated"
    /\ UNCHANGED << pathList, viaOffset, viaPitch, numRows, rowSpacing, rowIdx,
                    allViaPoints, rowVias, uniq, viaSize, viaPointsSafe, clipper,
                    interpVars, fenceVars, dedupVars, restVars >>

\* the de-duplication by integer position, viafence_action.py 584-590 (no
\* arc tracks: viaPointsArcsAll is empty)
DedupRun ==
    /\ pc = "generated"
    /\ uniq' = dedupExact(viaPoints \o << >>)
    /\ pc' = "deduped"
    /\ UNCHANGED << pathList, viaOffset, viaPitch, numRows, rowSpacing, rowIdx,
                    allViaPoints, rowVias, viaPoints, viaSize, viaPointsSafe, clipper,
                    interpVars, fenceVars, dedupVars, restVars >>

\* self.viaPointsSafe = dedupe_points(uniq, int(self.viaSize * 1.05)),
\* viafence_action.py 591
DedupeTolerance ==
    /\ pc = "deduped"
    /\ viaPointsSafe' = dedupe_points(uniq, dedupeTolerance(viaSize))
    /\ pc' = "safe"
    /\ UNCHANGED << pathList, viaOffset, viaPitch, numRows, rowSpacing, rowIdx,
                    allViaPoints, rowVias, viaPoints, uniq, viaSize, clipper,
                    interpVars, fenceVars, dedupVars, restVars >>

Next == SingleRow \/ StartRows \/ RowStep \/ RowsReturn \/ DedupRun \/ DedupeTolerance

Spec == Init /\ [][Next]_vars

-----------------------------------------------------------------------------
(* Positions relative to the trace of a Run.                               *)

RAbs(q) == << Abs(q[1]), q[2] >>

TraceStart == pathList[1][1]
TraceEnd == pathList[1][2]
TraceLength == getLineLength(TraceStart, TraceEnd)

\* unit vector of the trace (the traces here are axis parallel)
TraceUnit ==
    << (TraceEnd[1][1] - TraceStart[1][1]) \div TraceLength,
       (TraceEnd[2][1] - TraceStart[2][1]) \div TraceLength >>

\* distance of the foot of a point from the trace start, along the trace
AlongTrace(pt) ==
    RAdd(RMul(RSub(pt[1], TraceStart[1]), R(TraceUnit[1])),
         RMul(RSub(pt[2], TraceStart[2]), R(TraceUnit[2])))

\* distance of a point from the line through the trace
Lateral(pt) ==
    RAbs(RSub(RMul(RSub(pt[2], TraceStart[2]), R(TraceUnit[1])),
              RMul(RSub(pt[1], TraceStart[1]), R(TraceUnit[2]))))

\* the point at distance d along the trace and lat to its left (lat rational)
TracePoint(d, lat) ==
    << RAdd(RAdd(TraceStart[1], RMul(d, R(TraceUnit[1]))), RMul(lat, R(-TraceUnit[2]))),
       RAdd(RAdd(TraceStart[2], RMul(d, R(TraceUnit[2]))), RMul(lat, R(TraceUnit[1]))) >>

Range(seq) == { seq[k] : k \in 1 .. Len(seq) }

IsScenario ==
    /\ pathList = << Trace(<< 0, 0 >>, << 1, 0 >>, ScenarioLength) >>
    /\ viaOffset = ScenarioOffset /\ viaPitch = ScenarioPitch

-----------------------------------------------------------------------------
(* Claims on Spec.                                                         *)

\* C6: when two or more rows are generated from the same path and rows 0 and
\* 1 both have a candidate, the distance along the path of the first
\* candidate of row 1 is that of the first candidate of row 0 plus half the
\* pitch, to within one unit of rounding.
C6_OddRowsShifted ==
    (/\ Len(rowVias) >= 2
     /\ rowVias[1].exc = "none" /\ rowVias[2].exc = "none"
     /\ rowVias[1].val # << >> /\ rowVias[2].val # << >>) =>
        LET d0 == AlongTrace(rowVias[1].val[1])
            d1 == AlongTrace(rowVias[2].val[1])
        IN  RLess(RAbs(RSub(RSub(d1, d0), Rat(viaPitch, 2))), R(1))

\* what generateViaFence gives for the trace at a polygon offset
RowResult(off) == generateViaFence(pathList, off, viaPitch, clipper)

NormalValues ==
    /\ dedupeTolerance(viaSize) < viaPitch
    /\ dedupeTolerance(viaSize) < 2 * viaOffset
    /\ dedupeTolerance(viaSize) <
          (IF rowSpacing = << >> THEN (3 * viaPitch) \div 2 ELSE rowSpacing[1])

\* what a Run with one row keeps of the same trace after both
\* de-duplications
SingleRowSurvivors ==
    dedupe_points(dedupExact(caught(RowResult(viaOffset))), dedupeTolerance(viaSize))

\* C8: on a straight trace at normal pitch, offset and via size, the number
\* of candidates that survive de-duplication with two rows is at least 1.5
\* times the number that survive with one row.
C8_SecondRowSurvives ==
    (pc = "safe" /\ numRows = 2 /\ NormalValues) =>
        2 * Len(viaPointsSafe) >= 3 * Len(SingleRowSurvivors)

\* C8 happens: the scenario with two rows at the default spacing
C8_Witness ==
    /\ pc = "safe" /\ numRows = 2 /\ NormalValues /\ IsScenario
    /\ rowSpacing = << >> /\ viaSize > 0
    /\ Len(viaPointsSafe) = 44

\* the candidates placed on the trace itself: one at the offset, then one
\* every pitch while the distance is below the length of the trace
OnTraceCandidates ==
    LET count == IF viaOffset >= TraceLength THEN 0
                 ELSE ((TraceLength - viaOffset - 1) \div viaPitch) + 1
    IN  [ k \in 1 .. count |-> TracePoint(R(viaOffset + (k - 1) * viaPitch), R(0)) ]

FenceLineCandidates ==
    LET n == IF TraceLength \div viaPitch >= 1 THEN TraceLength \div viaPitch ELSE 1
    IN  { TracePoint(Rat(k * TraceLength, n), R(side * viaOffset)) :
            k \in 0 .. n, side \in { -1, 1 } }

-----------------------------------------------------------------------------
(* SpecDedup: the loop of viafence_action.py 584-590 over a list of        *)
(* candidates with fractional coordinates.                                 *)

\* longest candidate list
MaxCands == 3
\* largest coordinate, in halves
MaxHalf == 3

CandCoords == { Rat(n, 2) : n \in -MaxHalf .. MaxHalf }
CandPoints == { << x, y >> : x \in CandCoords, y \in { Rat(1, 2), Rat(3, 2) } }

InitDedup ==
    /\ dpc = "loop"
    /\ combinedViaPoints \in UNION { [1 .. n -> CandPoints] : n \in 0 .. MaxCands }
    /\ dIdx = 0 /\ dUniq = << >> /\ dSeen = {}
    /\ IdleInterp /\ IdleFence /\ IdleRun /\ IdleRest

\* one iteration of: for v in combinedViaPoints
DedupIter ==
    /\ dpc = "loop" /\ dIdx < Len(combinedViaPoints)
    /\ dUniq' = dedupStep([ uniq |-> dUniq, seen |-> dSeen ],
                          combinedViaPoints[dIdx + 1]).uniq
    /\ dSeen' = dedupStep([ uniq |-> dUniq, seen |-> dSeen ],
                          combinedViaPoints[dIdx + 1]).seen
    /\ dIdx' = dIdx + 1
    /\ UNCHANGED << dpc, combinedViaPoints, interpVars, fenceVars, runVars, restVars >>

\* the loop is exhausted
DedupExit ==
    /\ dpc = "loop" /\ dIdx >= Len(combinedViaPoints)
    /\ dpc' = "done"
    /\ UNCHANGED << combinedViaPoints, dIdx, dUniq, dSeen,
                    interpVars, fenceVars, runVars, restVars >>

NextDedup == DedupIter \/ DedupExit

SpecDedup == InitDedup /\ [][NextDedup]_vars

\* the elements of points at the indices idx, in order
SubSeqAt(points, idx) ==
    [ k \in 1 .. Cardinality(idx) |->
        points[CHOOSE i \in idx : Cardinality({ j \in idx : j <= i }) = k] ]

\* the first occurrence of every key, in the order of points
FirstByKeys(points, keys) ==
    SubSeqAt(points, { i \in 1 .. Len(points) : \A j \in 1 .. i - 1 : keys[j] # keys[i] })

RoundedKeys(points) ==
    [ i \in 1 .. Len(points) |-> << PyRound(points[i][1]), PyRound(points[i][2]) >> ]

TruncatedKeys(points) ==
    [ i \in 1 .. Len(points) |-> << PyInt(points[i][1]), PyInt(points[i][2]) >> ]

\* C10 as stated: two candidates collapse if and only if their coordinates
\* rounded to the nearest integer coincide; the first occurrence of each
\* rounded position is kept and the order of the survivors is unchanged.
C10_CollapseByRounding ==
    dpc = "done" =>
        /\ dUniq = FirstByKeys(combinedViaPoints, RoundedKeys(combinedViaPoints))
        /\ \A i, j \in 1 .. Len(dUniq) :
             i # j => RoundedKeys(dUniq)[i] # RoundedKeys(dUniq)[j]

\* C10, amended: two candidates collapse if and only if their coordinates
\* truncated toward zero (int) coincide; afterwards no two candidates share
\* the same truncated coordinates, the first occurrence of each position is
\* the one kept, and the relative order of the survivors is unchanged.
C10_CollapseByTruncation ==
    dpc = "done" =>
        /\ dUniq = FirstByKeys(combinedViaPoints, TruncatedKeys(combinedViaPoints))
        /\ \A i, j \in 1 .. Len(dUniq) :
             i # j => TruncatedKeys(dUniq)[i] # TruncatedKeys(dUniq)[j]
        /\ dSeen = Range(TruncatedKeys(combinedViaPoints))

\* C10 happens: a later candidate was dropped although it rounds to another
\* position than every earlier one, and survivors follow it
C10_Witness ==
    /\ dpc = "done" /\ Len(combinedViaPoints) = 3 /\ Len(dUniq) = 2
    /\ TruncatedKeys(combinedViaPoints)[1] = TruncatedKeys(combinedViaPoints)[2]
    /\ RoundedKeys(combinedViaPoints)[1] # RoundedKeys(combinedViaPoints)[2]
    /\ dUniq = << combinedViaPoints[1], combinedViaPoints[3] >>

-----------------------------------------------------------------------------
(* The overlap tests of viafence_action.py 56-103.  A distance is kept as  *)
(* its square, so that d < limit is: limit > 0 and d * d < limit * limit.  *)

\* pcbnew.FromMM(0.5) in the length unit of the board model (half a
\* millimetre)
FromMMHalf == 1

\* distance(p1, p2) squared, for points with rational coordinates
distanceSq(p1, p2) ==
    RAdd(RMul(RSub(p1[1], p2[1]), RSub(p1[1], p2[1])),
         RMul(RSub(p1[2], p2[2]), RSub(p1[2], p2[2])))

\* d < limit for d >= 0 given as its square
RootLess(dSq, limit) == RLess(R(0), limit) /\ RLess(dSq, RMul(limit, limit))

\* pcbnew.wxPoint(int(via_pos[0]), int(via_pos[1]))
viaPt(via_pos) == Pt(PyInt(via_pos[1]), PyInt(via_pos[2]))

\* a point of the board, given by integers
BoardPt(q) == Pt(q[1], q[2])

\* max(0.0, min(1.0, t))
clampUnit(t) == IF RLess(t, R(0)) THEN R(0) ELSE IF RLess(R(1), t) THEN R(1) ELSE t

\* the point start + t * (dx, dy)
segmentPoint(start, dx, dy, t) ==
    << RAdd(start[1], RMul(t, dx)), RAdd(start[2], RMul(t, dy)) >>

\* t of point_segment_distance before it is clamped
projectionParameter(point, start, dx, dy) ==
    RDiv(RAdd(RMul(RSub(point[1], start[1]), dx), RMul(RSub(point[2], start[2]), dy)),
         RAdd(RMul(dx, dx), RMul(dy, dy)))

\* point_segment_distance once dx, dy are known, squared
segmentDistanceSq(point, start, dx, dy) ==
    IF dx = R(0) /\ dy = R(0)
    THEN distanceSq(point, start)
    ELSE distanceSq(point,
                    segmentPoint(start, dx, dy,
                                 clampUnit(projectionParameter(point, start, dx, dy))))

\* point_segment_distance(point, start, end), squared
point_segment_distance_sq(point, start, end) ==
    segmentDistanceSq(point, start, RSub(end[1], start[1]), RSub(end[2], start[2]))

\* a variant of via_track_overlaps that takes the clearance off the limit
via_track_overlaps_Less(via_pos, via_diam, track, c) ==
    RootLess(point_segment_distance_sq(viaPt(via_pos), BoardPt(track.start),
                                       BoardPt(track.end)),
             RAdd(RSub(RAdd(Rat(track.width, 2), Rat(via_diam, 2)), R(c)),
                  Rat(via_diam, 10)))

\* a variant of via_track_overlaps that measures to the line through the
\* track, not to the segment
via_track_overlaps_Line(via_pos, via_diam, track, c) ==
    RootLess(IF track.start = track.end
             THEN distanceSq(viaPt(via_pos), BoardPt(track.start))
             ELSE distanceSq(viaPt(via_pos),
                      segmentPoint(BoardPt(track.start),
                          R(track.end[1] - track.start[1]),
                          R(track.end[2] - track.start[2]),
                          projectionParameter(viaPt(via_pos), BoardPt(track.start),
                              R(track.end[1] - track.start[1]),
                              R(track.end[2] - track.start[2])))),
             RAdd(RAdd(RAdd(Rat(track.width, 2), Rat(via_diam, 2)), R(c)),
                  Rat(via_diam, 10)))

via_track_overlaps(via_pos, via_diam, track, c) ==
    RootLess(point_segment_distance_sq(viaPt(via_pos), BoardPt(track.start),
                                       BoardPt(track.end)),
             RAdd(RAdd(RAdd(Rat(track.width, 2), Rat(via_diam, 2)), R(c)),
                  Rat(via_diam, 10)))

\* pad_radius = math.hypot(size.x / 2.0, size.y / 2.0)
padRadius(pad) == Rat(Hypot(pad.size[1], pad.size[2]), 2)

via_pad_overlaps(via_pos, via_diam, pad, c) ==
    RootLess(distanceSq(viaPt(via_pos), BoardPt(pad.pos)),
             RAdd(RAdd(RAdd(padRadius(pad), Rat(via_diam, 2)), R(c)),
                  Rat(via_diam * 5, 100)))

via_via_overlaps(via_pos, new_via_diam, existing_via, c) ==
    RootLess(distanceSq(viaPt(via_pos), BoardPt(existing_via.pos)),
             RAdd(RAdd(RAdd(Rat(new_via_diam, 2), Rat(existing_via.width, 2)), R(c)),
                  Rat(new_via_diam * 5, 100)))

-----------------------------------------------------------------------------
(* checkPads, checkTracks and filter_vias_precise, viafence_action.py      *)
(* 199-348.                                                                *)

\* max(pcbnew.FromMM(0.5), clearance // 2)
min_same_net_clearance(c) == IF FromMMHalf > c \div 2 THEN FromMMHalf ELSE c \div 2

\* a variant of extra_clearance that gives every track the full clearance
extra_clearance_Full(trackNet, netId, c) == c

\* extra_clearance of checkTracks, viafence_action.py 258-264
extra_clearance(trackNet, netId, c) ==
    IF trackNet = netId THEN min_same_net_clearance(c) ELSE c

\* the clearance filter_vias_precise hands to via_track_overlaps,
\* viafence_action.py 319-328
preciseTrackClearance(trackNet, netId, c) ==
    IF trackNet = netId THEN min_same_net_clearance(c) ELSE c

\* [p for p in self.viaPointsSafe if p not in viasToRemove]
withoutRemoved(points, viasToRemove) ==
    SelectSeq(points, LAMBDA q : q \notin viasToRemove)

\* viasToRemove of checkPads; the attribute self.clearance is read for every
\* pair, and a pair for which it is not set raises and is skipped
padsToRemove(points, padsArg, diam, selfC) ==
    IF selfC = << >> THEN {}
    ELSE { points[k] : k \in { j \in 1 .. Len(points) :
                \E i \in 1 .. Len(padsArg) :
                    via_pad_overlaps(points[j], diam, padsArg[i], selfC[1]) } }

\* viasToRemove of checkTracks
tracksToRemove(points, tracksArg, diam, c, netId) ==
    { points[k] : k \in { j \in 1 .. Len(points) :
        \E i \in 1 .. Len(tracksArg) :
            via_track_overlaps(points[j], diam, tracksArg[i],
                               extra_clearance(tracksArg[i].net, netId, c)) } }

\* the track test of filter_vias_precise for one track
preciseTrackOverlap(pt, trk, diam, c, netId) ==
    via_track_overlaps(pt, diam, trk, preciseTrackClearance(trk.net, netId, c))

\* the indices of the tracks that filter_vias_precise finds overlapping
overlappingTracks(pt, tracksArg, diam, c, netId) ==
    { i \in 1 .. Len(tracksArg) : preciseTrackOverlap(pt, tracksArg[i], diam, c, netId) }

\* the first of a non-empty set of indices
FirstIndex(idx) == CHOOSE i \in idx : \A j \in idx : i <= j

\* the counter the loop over the tracks increments before its break
trackReason(trk, netId) ==
    IF trk.net = netId THEN "same_net_track" ELSE "diff_net_track"

\* the via createVias adds at a candidate: pcbnew.VECTOR2I(int(x), int(y)),
\* width self.viaSize
candidateVia(pt, diam) == [ pos |-> << PyInt(pt[1]), PyInt(pt[2]) >>, width |-> diam ]

\* a variant of the outcome that also rejects a candidate overlapping an
\* accepted one
candidateOutcome_Accepted(pt, acc, padsArg, tracksArg, viasArg, diam, c, netId) ==
    IF \E i \in 1 .. Len(padsArg) : via_pad_overlaps(pt, diam, padsArg[i], c)
    THEN "pad"
    ELSE IF overlappingTracks(pt, tracksArg, diam, c, netId) # {}
    THEN trackReason(tracksArg[FirstIndex(overlappingTracks(pt, tracksArg, diam, c, netId))],
                     netId)
    ELSE IF \/ \E i \in 1 .. Len(viasArg) : via_via_overlaps(pt, diam, viasArg[i], c)
            \/ \E i \in 1 .. Len(acc) :
                 via_via_overlaps(pt, diam, candidateVia(acc[i], diam), c)
    THEN "existing_via"
    ELSE "accepted"

\* the outcome of the loop body of filter_vias_precise for the candidate pt,
\* viafence_action.py 311-343; acc is the list accepted so far
candidateOutcome(pt, acc, padsArg, tracksArg, viasArg, diam, c, netId) ==
    IF \E i \in 1 .. Len(padsArg) : via_pad_overlaps(pt, diam, padsArg[i], c)
    THEN "pad"
    ELSE IF overlappingTracks(pt, tracksArg, diam, c, netId) # {}
    THEN trackReason(tracksArg[FirstIndex(overlappingTracks(pt, tracksArg, diam, c, netId))],
                     netId)
    ELSE IF \E i \in 1 .. Len(viasArg) : via_via_overlaps(pt, diam, viasArg[i], c)
    THEN "existing_via"
    ELSE "accepted"

\* accepted after the loop body
acceptedAfter(acc, pt, outcome) ==
    IF outcome = "accepted" THEN Append(acc, pt) ELSE acc

\* a variant of reasonsAfter that counts a track rejection under both track causes
reasonsAfter_BothTracks(reasons, outcome) ==
    IF outcome = "accepted" THEN reasons
    ELSE IF outcome \in { "same_net_track", "diff_net_track" }
    THEN [ reasons EXCEPT !["same_net_track"] = @ + 1, !["diff_net_track"] = @ + 1 ]
    ELSE [ reasons EXCEPT ![outcome] = @ + 1 ]

\* rejected_reasons after the loop body
reasonsAfter(reasons, outcome) ==
    IF outcome = "accepted" THEN reasons
    ELSE [ reasons EXCEPT ![outcome] = @ + 1 ]

\* filter_vias_precise(candidate_points): the loop as a whole
RECURSIVE preciseLoop(_, _, _, _, _, _, _, _)
preciseLoop(acc, points, padsArg, tracksArg, viasArg, diam, c, netId) ==
    IF points = << >> THEN acc
    ELSE preciseLoop(
             acceptedAfter(acc, Head(points),
                 candidateOutcome(Head(points), acc, padsArg, tracksArg, viasArg,
                                  diam, c, netId)),
             Tail(points), padsArg, tracksArg, viasArg, diam, c, netId)

filter_vias_precise(points, padsArg, tracksArg, viasArg, diam, c, netId) ==
    preciseLoop(<< >>, points, padsArg, tracksArg, viasArg, diam, c, netId)

\* the tracks the loop over the tracks reaches for a candidate: all of them,
\* or those up to the first overlapping one
testedTracks(pt, tracksArg, diam, c, netId) ==
    IF overlappingTracks(pt, tracksArg, diam, c, netId) = {}
    THEN 1 .. Len(tracksArg)
    ELSE 1 .. FirstIndex(overlappingTracks(pt, tracksArg, diam, c, netId))

-----------------------------------------------------------------------------
(* SpecFilter: Run from self.viaPointsSafe = dedupe_points(...) to the     *)
(* result of filter_vias_precise, viafence_action.py 592-597, on a small   *)
(* board.                                                                  *)

\* longest candidate list handed to the clearance checks
MaxFilterCands == 2
\* largest clearance constraint of the design settings
MaxClearance == 4
\* the clearance constraints a board is given
Clearances == { 0, 1, MaxClearance }

PadA == [ pos |-> << 0, 5 >>, size |-> << 6, 8 >> ]
PadB == [ pos |-> << 12, -4 >>, size |-> << 2, 0 >> ]
TrackLong == [ start |-> << -2, -3 >>, end |-> << 4, -3 >>, width |-> 2, net |-> 0 ]
TrackSame == [ start |-> << 8, 4 >>, end |-> << 8, 8 >>, width |-> 2, net |-> 1 ]
TrackDot == [ start |-> << 3, 3 >>, end |-> << 3, 3 >>, width |-> 2, net |-> 0 ]
TrackDiag == [ start |-> << -1, 2 >>, end |-> << 3, 5 >>, width |-> 2, net |-> 1 ]
ViaNine == [ pos |-> << 9, 0 >>, width |-> 2 ]
ViaZero == [ pos |-> << 0, -3 >>, width |-> 4 ]

PadLists == { << >>, << PadA, PadB >> }
TrackLists == { << >>, << TrackLong >>, << TrackSame, TrackLong >>, << TrackDot, TrackDiag >> }
ViaLists == { << >>, << ViaNine, ViaZero >> }

\* candidate positions; the last one is not on the integer grid
FilterPool == { Pt(0, 0), Pt(3, 0), Pt(12, 0), << Rat(13, 2), R(4) >> }
FilterViaSizes == { 2, 4 }

\* the lists dedupe_points can return for a via of diameter diam
SafeLists(diam) ==
    { l \in UNION { [1 .. n -> FilterPool] : n \in 0 .. MaxFilterCands } :
        dedupe_points(l, dedupeTolerance(diam)) = l }

InitFilter ==
    /\ pc = "safe"
    /\ viaSize \in FilterViaSizes
    /\ viaPointsSafe \in SafeLists(viaSize)
    /\ pads \in PadLists /\ tracks \in TrackLists /\ existing_vias \in ViaLists
    /\ clearance \in Clearances
    /\ viaNetId \in { 0, 1 }
    /\ isRemoveChecked \in BOOLEAN
    /\ selfClearance \in IF isRemoveChecked THEN { << >>, << 0 >> } ELSE { << >> }
    /\ candidate_points = << >> /\ fIdx = 0 /\ accepted = << >>
    /\ rejected_reasons = NoRejections /\ usedClearance = {}
    /\ pathList = << >> /\ viaOffset = 0 /\ viaPitch = 0 /\ numRows = 0
    /\ rowSpacing = << >> /\ rowIdx = 0 /\ allViaPoints = << >> /\ rowVias = << >>
    /\ viaPoints = << >> /\ uniq = << >> /\ clipper = << 0, FALSE >>
    /\ IdleInterp /\ IdleFence /\ IdleDedup /\ IdleLate

\* the variables of Run that the clearance checks leave alone
generatorVars ==
    << pathList, viaOffset, viaPitch, numRows, rowSpacing, rowIdx, allViaPoints,
       rowVias, viaPoints, uniq, viaSize, clipper >>

\* removed = self.checkPads()
CheckPads ==
    /\ pc = "safe" /\ isRemoveChecked
    /\ viaPointsSafe' = withoutRemoved(viaPointsSafe,
                            padsToRemove(viaPointsSafe, pads, viaSize, selfClearance))
    /\ pc' = "padsChecked"
    /\ UNCHANGED << generatorVars, filterVars, interpVars, fenceVars, dedupVars, lateVars >>

\* remvd = self.checkTracks()
CheckTracks ==
    /\ pc = "padsChecked"
    /\ selfClearance' = << clearance >>
    /\ viaPointsSafe' = withoutRemoved(viaPointsSafe,
                            tracksToRemove(viaPointsSafe, tracks, viaSize, clearance,
                                           viaNetId))
    /\ usedClearance' = usedClearance \cup
          { << "checkTracks", pt, i, extra_clearance(tracks[i].net, viaNetId, clearance) >> :
              pt \in Range(viaPointsSafe), i \in 1 .. Len(tracks) }
    /\ pc' = "tracksChecked"
    /\ UNCHANGED << generatorVars, boardVars, candidate_points, fIdx, accepted,
                    rejected_reasons, interpVars, fenceVars, dedupVars, lateVars >>

\* the option is not checked
SkipChecks ==
    /\ pc = "safe" /\ ~isRemoveChecked
    /\ pc' = "tracksChecked"
    /\ UNCHANGED << generatorVars, viaPointsSafe, filterVars,
                    interpVars, fenceVars, dedupVars, lateVars >>

\* self.filter_vias_precise(self.viaPointsSafe) up to its loop
FilterStart ==
    /\ pc = "tracksChecked"
    /\ candidate_points' = viaPointsSafe
    /\ fIdx' = 0 /\ accepted' = << >> /\ rejected_reasons' = NoRejections
    /\ pc' = "filtering"
    /\ UNCHANGED << generatorVars, viaPointsSafe, boardVars, selfClearance,
                    usedClearance, interpVars, fenceVars, dedupVars, lateVars >>

\* one iteration of: for pt in candidate_points
FilterStep ==
    /\ pc = "filtering" /\ fIdx < Len(candidate_points)
    /\ accepted' = acceptedAfter(accepted, candidate_points[fIdx + 1],
                       candidateOutcome(candidate_points[fIdx + 1], accepted, pads,
                                        tracks, existing_vias, viaSize, clearance,
                                        viaNetId))
    /\ rejected_reasons' = reasonsAfter(rejected_reasons,
                       candidateOutcome(candidate_points[fIdx + 1], accepted, pads,
                                        tracks, existing_vias, viaSize, clearance,
                                        viaNetId))
    /\ usedClearance' = usedClearance \cup
          IF candidateOutcome(candidate_points[fIdx + 1], accepted, pads, tracks,
                              existing_vias, viaSize, clearance, viaNetId) = "pad"
          THEN {}
          ELSE { << "filter_vias_precise", candidate_points[fIdx + 1], i,
                    preciseTrackClearance(tracks[i].net, viaNetId, clearance) >> :
                   i \in testedTracks(candidate_points[fIdx + 1], tracks, viaSize,
                                      clearance, viaNetId) }
    /\ fIdx' = fIdx + 1
    /\ UNCHANGED << pc, generatorVars, viaPointsSafe, boardVars, selfClearance,
                    candidate_points, interpVars, fenceVars, dedupVars, lateVars >>

\* return accepted; self.viaPointsSafe = the result
FilterReturn ==
    /\ pc = "filtering" /\ fIdx >= Len(candidate_points)
    /\ viaPointsSafe' = accepted
    /\ pc' = "filtered"
    /\ UNCHANGED << generatorVars, filterVars, interpVars, fenceVars, dedupVars, lateVars >>

NextFilter ==
    CheckPads \/ CheckTracks \/ SkipChecks \/ FilterStart \/ FilterStep \/ FilterReturn

SpecFilter == InitFilter /\ [][NextFilter]_vars

-----------------------------------------------------------------------------
(* Claims about the clearance filter.                                      *)

\* pt overlaps a pad, a track under the net-aware clearance or an existing via
overlapsBoard(pt) ==
    \/ \E i \in 1 .. Len(pads) : via_pad_overlaps(pt, viaSize, pads[i], clearance)
    \/ \E i \in 1 .. Len(tracks) :
         via_track_overlaps(pt, viaSize, tracks[i],
                            IF tracks[i].net = viaNetId
                            THEN min_same_net_clearance(clearance) ELSE clearance)
    \/ \E i \in 1 .. Len(existing_vias) :
         via_via_overlaps(pt, viaSize, existing_vias[i], clearance)

\* pt overlaps the via of one of the candidates in the list earlier
overlapsEarlier(pt, earlier) ==
    \E j \in 1 .. Len(earlier) :
        via_via_overlaps(pt, viaSize, candidateVia(earlier[j], viaSize), clearance)

\* C11: when the pass has returned, a candidate is in the output only if it
\* overlaps no pad, no track, no existing via and no candidate accepted before
\* it in the pass, and every candidate that overlaps none of them is in the
\* output.
C11_AcceptedOverlapNothing ==
    pc = "filtered" =>
        /\ \A i \in 1 .. Len(accepted) :
             /\ ~overlapsBoard(accepted[i])
             /\ ~overlapsEarlier(accepted[i], SubSeq(accepted, 1, i - 1))
        /\ \A k \in 1 .. Len(candidate_points) :
             ( /\ ~overlapsBoard(candidate_points[k])
               /\ ~overlapsEarlier(candidate_points[k], accepted) )
                 => candidate_points[k] \in Range(accepted)

\* the lists that hold the items of list in some order
Orderings(list) ==
    { [ i \in 1 .. Len(list) |-> list[f[i]] ] :
        f \in { g \in [1 .. Len(list) -> 1 .. Len(list)] :
                  \A i, j \in 1 .. Len(list) : g[i] = g[j] => i = j } }

\* C12: when the pass has returned, the filter accepts the same set of
\* candidates for every permutation of the candidate list and every ordering
\* of the pad, track and via collections of the board.
C12_OrderIndependent ==
    pc = "filtered" =>
        \A cs \in Orderings(candidate_points), ps \in Orderings(pads),
           ts \in Orderings(tracks), vs \in Orderings(existing_vias) :
            Range(filter_vias_precise(cs, ps, ts, vs, viaSize, clearance, viaNetId))
                = Range(accepted)

\* a pass over two candidates and two tracks that accepts one candidate
C12_Witness ==
    /\ pc = "filtered"
    /\ Len(candidate_points) >= 2 /\ Len(tracks) >= 2
    /\ Len(accepted) = 1

\* C13: the clearance used for a (candidate, track) pair is the same-net
\* minimum clearance floor when the net of the track is the net of the new
\* vias, and the full clearance constraint otherwise.
C13_SameNetFloor ==
    \A e \in usedClearance :
        e[4] = IF tracks[e[3]].net = viaNetId THEN FromMMHalf ELSE clearance

\* C13, amended: the clearance used for a (candidate, track) pair is the
\* greater of the same-net floor and half the clearance constraint (integer
\* division) when the net of the track is the net of the new vias, and the full
\* clearance constraint otherwise; checkTracks and filter_vias_precise use the
\* same clearance for the same pair.
C13_NetAwareClearance ==
    /\ \A e \in usedClearance :
         e[4] = IF tracks[e[3]].net = viaNetId
                THEN Max(FromMMHalf, clearance \div 2) ELSE clearance
    /\ \A e, f \in usedClearance : (e[2] = f[2] /\ e[3] = f[3]) => e[4] = f[4]

\* both functions have tested one candidate against a track of the net of the
\* new vias, on a board whose half clearance exceeds the floor
C13_Witness ==
    /\ clearance \div 2 > FromMMHalf
    /\ \E e, f \in usedClearance :
         /\ e[1] = "checkTracks" /\ f[1] = "filter_vias_precise"
         /\ e[2] = f[2] /\ e[3] = f[3]
         /\ tracks[e[3]].net = viaNetId

\* the clearances not below the one of the board that the claims compare with
LargerClearances ==
    { c \in Clearances \cup { clearance + 1, MaxClearance + 1 } : c >= clearance }

\* C14: in a finished pass, a pad, track or via that overlaps a candidate at
\* the clearance of the board overlaps it at every larger clearance, and the
\* set the filter accepts at a larger clearance is a subset of the set accepted.
C14_MonotoneInClearance ==
    pc = "filtered" =>
        \A c2 \in LargerClearances :
            /\ \A k \in 1 .. Len(candidate_points) :
                 /\ \A i \in 1 .. Len(pads) :
                      via_pad_overlaps(candidate_points[k], viaSize, pads[i], clearance)
                        => via_pad_overlaps(candidate_points[k], viaSize, pads[i], c2)
                 /\ \A i \in 1 .. Len(tracks) :
                      via_track_overlaps(candidate_points[k], viaSize, tracks[i], clearance)
                        => via_track_overlaps(candidate_points[k], viaSize, tracks[i], c2)
                 /\ \A i \in 1 .. Len(existing_vias) :
                      via_via_overlaps(candidate_points[k], viaSize, existing_vias[i],
                                       clearance)
                        => via_via_overlaps(candidate_points[k], viaSize,
                                            existing_vias[i], c2)
            /\ Range(filter_vias_precise(candidate_points, pads, tracks, existing_vias,
                                         viaSize, c2, viaNetId)) \subseteq Range(accepted)

\* a finished pass that accepted a candidate which a larger clearance rejects
\* because of a track
C14_Witness ==
    /\ pc = "filtered" /\ accepted # << >>
    /\ \E c2 \in LargerClearances, k \in 1 .. Len(accepted), i \in 1 .. Len(tracks) :
         /\ ~via_track_overlaps(accepted[k], viaSize, tracks[i], clearance)
         /\ via_track_overlaps(accepted[k], viaSize, tracks[i], c2)
         /\ accepted[k] \notin Range(filter_vias_precise(candidate_points, pads, tracks,
                                        existing_vias, viaSize, c2, viaNetId))

\* (b - a) . (p - a) and (b - a) x (p - a) for points given by integers
DotAt(a, b, p) == (b[1] - a[1]) * (p[1] - a[1]) + (b[2] - a[2]) * (p[2] - a[2])
CrossAt(a, b, p) == (b[1] - a[1]) * (p[2] - a[2]) - (b[2] - a[2]) * (p[1] - a[1])
NormSq(a, b) == (b[1] - a[1]) * (b[1] - a[1]) + (b[2] - a[2]) * (b[2] - a[2])

\* the square of the distance from p to the nearest point of the segment from
\* a to b: to the foot of the perpendicular when it lies on the segment, to the
\* nearer end otherwise, to a when the segment has no length
NearestSq(p, a, b) ==
    IF a = b THEN R(NormSq(a, p))
    ELSE IF DotAt(a, b, p) >= 0 /\ DotAt(a, b, p) <= NormSq(a, b)
    THEN Rat(CrossAt(a, b, p) * CrossAt(a, b, p), NormSq(a, b))
    ELSE R(Min(NormSq(a, p), NormSq(b, p)))

\* the centre of the via of a candidate: its position truncated to integers
ViaCentre(pt) == << PyInt(pt[1]), PyInt(pt[2]) >>

\* trackWidth/2 + viaDiameter/2 + clearance + 0.1 x viaDiameter
TrackLimit(width, diam, c) ==
    RAdd(RAdd(Rat(width, 2), Rat(diam, 2)), RAdd(R(c), Rat(diam, 10)))

\* C15: in a finished pass, for every candidate, track and clearance of the
\* board model, via_track_overlaps is true exactly when the distance from the via centre to
\* the nearest point of the track segment is less than trackWidth/2 +
\* viaDiameter/2 + clearance + 0.1 x viaDiameter.
C15_NearestPointOfSegment ==
    pc = "filtered" =>
      \A pt \in Range(candidate_points) :
        \A i \in 1 .. Len(tracks), c \in Clearances :
            via_track_overlaps(pt, viaSize, tracks[i], c)
              <=> /\ RLess(R(0), TrackLimit(tracks[i].width, viaSize, c))
                  /\ RLess(NearestSq(ViaCentre(pt), tracks[i].start, tracks[i].end),
                           RMul(TrackLimit(tracks[i].width, viaSize, c),
                                TrackLimit(tracks[i].width, viaSize, c)))

\* the filter has found a candidate overlapping a track whose nearest point is
\* its end, and has tested a candidate against a track without length
C15_Witness ==
    /\ pc = "filtered"
    /\ \E e \in usedClearance :
         /\ e[1] = "filter_vias_precise"
         /\ DotAt(tracks[e[3]].start, tracks[e[3]].end, ViaCentre(e[2]))
              > NormSq(tracks[e[3]].start, tracks[e[3]].end)
         /\ tracks[e[3]].start # tracks[e[3]].end
         /\ via_track_overlaps(e[2], viaSize, tracks[e[3]], e[4])
    /\ \E e \in usedClearance :
         e[1] = "filter_vias_precise" /\ tracks[e[3]].start = tracks[e[3]].end

-----------------------------------------------------------------------------
(* SpecBadInput: Run, viafence_action.py 572-591, with the arguments a     *)
(* caller can pass: a pitch or an offset that is not positive, and path    *)
(* lists that hold paths without length, with one point or with none.      *)

\* longest trace of the inputs
MaxBadLen == 3

\* the path lists: a trace alone, a trace with one malformed path before or
\* after it, a malformed path alone, no path
InputPathLists ==
    LET traces == { Trace(<< -2, 1 >>, << 1, 0 >>, len) : len \in 1 .. MaxBadLen }
        \* a path of two equal points, of one point, of no point
        bad == { << Pt(1, 1), Pt(1, 1) >>, << Pt(1, 1) >>, << >> }
    IN  { << t >> : t \in traces }
        \cup { << t, b >> : t \in traces, b \in bad }
        \cup { << b, t >> : t \in traces, b \in bad }
        \cup { << b >> : b \in bad }
        \cup { << >> }

InitBadInput ==
    /\ pc = "call"
    /\ pathList \in InputPathLists
    /\ viaOffset \in -1 .. MaxOffset
    /\ viaPitch \in -1 .. MaxPitch
    /\ numRows \in 1 .. MaxRows
    /\ rowSpacing = << >>
    /\ viaSize = 1
    /\ rowIdx = 0
    /\ allViaPoints = << >> /\ rowVias = << >> /\ viaPoints = << >> /\ uniq = << >>
    /\ viaPointsSafe = << >>
    /\ clipper \in LibChoices
    /\ IdleInterp /\ IdleFence /\ IdleDedup /\ IdleRest

SpecBadInput == InitBadInput /\ [][Next]_vars

\* C16: with a pitch or an offset that is not positive, every call of the
\* generator ends with a configuration error, and no candidate is generated.
C16_RejectedUpFront ==
    (viaPitch <= 0 \/ viaOffset <= 0) =>
        /\ \A r \in 1 .. Len(rowVias) :
             rowVias[r].exc = "ConfigurationError"
        /\ viaPoints = << >> /\ allViaPoints = << >>

\* the path list without its malformed paths
ValidPaths(paths) ==
    SelectSeq(paths, LAMBDA path : Len(path) >= 2 /\ path[1] # path[Len(path)])

\* C17: with a positive pitch and offset, a malformed path in the path list
\* does not abort the generation: every call of the generator returns what it
\* returns for the list of the valid paths alone.
C17_MalformedSkipped ==
    (viaPitch > 0 /\ viaOffset > 0 /\ numRows <= 1) =>
        \A r \in 1 .. Len(rowVias) :
            /\ rowVias[r].exc = "none"
            /\ rowVias[r] = generateViaFence(ValidPaths(pathList), viaOffset, viaPitch,
                                            clipper)

-----------------------------------------------------------------------------
(* SpecSegments: calculate_adaptive_segments, viafence.py 482-535.  Angles *)
(* are integers, in microradians.                                          *)

\* largest min_segments the callers pass
MaxFloor == 250
\* the cap of line 532
segmentsCap == 200

\* math.acos(cos_val) in microradians, for the values of cos_val the arguments
\* below lead to
acosMicro(cos_val) ==
    CASE cos_val = Rat(1, 2) -> 1047198
      [] cos_val = Rat(3, 5) -> 927295
      [] cos_val = Rat(4, 5) -> 643501
      [] cos_val = Rat(9, 10) -> 451027
      [] cos_val = Rat(99, 100) -> 141539
      [] cos_val = Rat(999, 1000) -> 44725
      [] cos_val = Rat(9999, 10000) -> 14142

\* math.ceil(x)
PyCeil(a) == -((-a[1]) \div a[2])

\* min(a, b) and max(a, b) of Python on two rationals: the first when equal
RMin(a, b) == IF RLess(b, a) THEN b ELSE a
RMax(a, b) == IF RLess(a, b) THEN b ELSE a

\* max_dev before line 515
maxDevUnits(radiusArg, devArg) ==
    IF radiusArg > 100000 THEN RMul(devArg, R(1000000)) ELSE RMul(devArg, R(10000))

\* max_dev = min(max_dev, radius * 0.5)
maxDevOf(radiusArg, devArg) == RMin(maxDevUnits(radiusArg, devArg), Rat(radiusArg, 2))

\* cos_val = max(-1.0, min(1.0, 1.0 - (max_dev / float(radius))))
cosValOf(radiusArg, max_dev) ==
    RMax(R(-1), RMin(R(1), RSub(R(1), RDiv(max_dev, R(radiusArg)))))

\* a variant of boundedSegments without the cap
boundedSegments_NoCap(n, floorArg) == Max(floorArg, n)

\* segments = max(min_segments, min(segments, 200))
boundedSegments(n, floorArg) == Max(floorArg, Min(n, segmentsCap))

\* lines 520-533, once max_dev is known to lie between 0 and the radius
segmentsFor(radiusArg, angleArg, max_dev, floorArg) ==
    IF 2 * acosMicro(cosValOf(radiusArg, max_dev)) <= 0
    THEN floorArg
    ELSE boundedSegments(
             PyCeil(Rat(angleArg, 2 * acosMicro(cosValOf(radiusArg, max_dev)))),
             floorArg)

calculate_adaptive_segments(radiusArg, angleArg, devArg, floorArg) ==
    IF radiusArg <= 0 \/ angleArg <= 0
    THEN Return(floorArg)
    ELSE IF \/ RLeq(R(radiusArg), maxDevOf(radiusArg, devArg))
            \/ RLeq(maxDevOf(radiusArg, devArg), R(0))
    THEN Return(floorArg)
    ELSE Return(segmentsFor(radiusArg, angleArg, maxDevOf(radiusArg, devArg), floorArg))

SegmentRadii == { -1, 0, 100, 2500, 5000, 10000, 100000, 1000000, 1000000000 }
SegmentAngles == { -1000000, 0, 261799, 1570796, 6283185, 1000000000 }
SegmentDeviations == { Rat(1, 10), R(0), Rat(-1, 10), R(1) }
SegmentFloors == { 1, 16, MaxFloor }

InitSegments ==
    /\ radius \in SegmentRadii /\ arc_angle \in SegmentAngles
    /\ max_deviation_mm \in SegmentDeviations /\ min_segments \in SegmentFloors
    /\ segments = << >>
    /\ IdleInterp /\ IdleFence /\ IdleRun /\ IdleDedup /\ IdleFilter /\ IdleCalls
    /\ IdleTail
    /\ IdleParallel

\* segNBR = calculate_adaptive_segments(rad, arc_angle, ...)
CalculateSegments ==
    /\ segments = << >>
    /\ segments' = << calculate_adaptive_segments(radius, arc_angle, max_deviation_mm,
                                                  min_segments) >>
    /\ UNCHANGED << radius, arc_angle, max_deviation_mm, min_segments,
                    interpVars, fenceVars, runVars, dedupVars, filterVars, callVars,
                    parVars, tailVars >>

NextSegments == CalculateSegments

SpecSegments == InitSegments /\ [][NextSegments]_vars

\* C18: a call returns without raising an integer between the floor and 200,
\* and the floor itself when the radius or the angle is not positive.
C18_BetweenFloorAndCap ==
    segments # << >> =>
        /\ segments[1].exc = "none"
        /\ segments[1].val \in min_segments .. segmentsCap
        /\ (radius <= 0 \/ arc_angle <= 0) => segments[1].val = min_segments

\* C18, amended: a call returns without raising an integer that is at least
\* the floor and at most the greater of the floor and 200, and the floor itself
\* when the radius or the angle is not positive.
C18_BetweenFloorAndGreater ==
    segments # << >> =>
        /\ segments[1].exc = "none"
        /\ segments[1].val \in min_segments .. Max(min_segments, segmentsCap)
        /\ (radius <= 0 \/ arc_angle <= 0) => segments[1].val = min_segments

\* a call with a positive radius and angle whose count was cut to the cap
C18_Witness ==
    /\ segments # << >> /\ radius > 0 /\ arc_angle > 0
    /\ min_segments < segmentsCap
    /\ segments[1].val = segmentsCap

-----------------------------------------------------------------------------
(* SpecCalls: a caller that calls generateViaFenceMultiRow several times   *)
(* with one path list object, viafence.py 284-382.                         *)

\* most calls of one caller
MaxCalls == 3
\* largest pitch the caller passes; it also passes 0
MaxCallPitch == 1
\* longest trace of the caller
MaxCallLen == 2

RECURSIVE multiRowLoop(_, _, _, _, _, _, _, _)

\* the loop body of generateViaFenceMultiRow once row_vias is known
multiRowNext(row_vias, idx, all, paths, off, pitch, rows, spacing, lib) ==
    IF row_vias.exc = "none"
    THEN multiRowLoop(idx + 1, all \o row_vias.val, paths, off, pitch, rows, spacing, lib)
    ELSE row_vias

\* for rowIdx in range(numRows), viafence.py 310-329
multiRowLoop(idx, all, paths, off, pitch, rows, spacing, lib) ==
    IF idx >= rows THEN Return(all)
    ELSE multiRowNext(generateViaFence(paths, current_row_offset(off, idx, spacing),
                                       pitch, lib),
                      idx, all, paths, off, pitch, rows, spacing, lib)

generateViaFenceMultiRow(paths, off, pitch, rows, spacingArg, lib) ==
    IF rows <= 1 THEN generateViaFence(paths, off, pitch, lib)
    ELSE multiRowLoop(0, << >>, paths, off, pitch, rows,
                      rowSpacingOf(spacingArg, pitch), lib)

\* a variant of callerPathListAfter that filters the list of the caller in
\* place
callerPathListAfter_InPlace(paths) ==
    SelectSeq(paths, LAMBDA path : getLineLength(path[1], path[2]) > 0)

\* the list object of the caller after line 338 of generateViaFence:
\* pathList = [path for ...] binds the local name to a new list
callerPathListAfter(paths) == paths

\* the path lists of the caller: a trace and a path without length
CallerPathLists ==
    { << Trace(<< -2, 1 >>, << 1, 0 >>, len), << Pt(1, 1), Pt(1, 1) >> >> :
        len \in 1 .. MaxCallLen }

InitCalls ==
    /\ verboseFunc = "unset"
    /\ callerPathList \in CallerPathLists
    /\ nCalls = 0 /\ returned = {}
    /\ pc = "idle" /\ clipper \in LibChoices
    /\ pathList = << >> /\ viaOffset = 0 /\ viaPitch = 0 /\ numRows = 0
    /\ rowSpacing = << >> /\ rowIdx = 0 /\ allViaPoints = << >> /\ rowVias = << >>
    /\ viaPoints = << >> /\ uniq = << >> /\ viaSize = 0 /\ viaPointsSafe = << >>
    /\ IdleInterp /\ IdleFence /\ IdleDedup /\ IdleFilter /\ IdleSegments
    /\ IdleTail
    /\ IdleParallel

\* one call generateViaFenceMultiRow(pathList, 1, pitch, rows, None, vFunc)
CallGenerator ==
    /\ nCalls < MaxCalls
    /\ \E pitch \in 0 .. MaxCallPitch, rows \in 1 .. 2, vFunc \in { "a", "b" } :
        /\ returned' = returned \cup
              { << << callerPathList, 1, pitch, rows, << >> >>,
                   generateViaFenceMultiRow(callerPathList, 1, pitch, rows, << >>,
                                            clipper) >> }
        /\ verboseFunc' = vFunc
    /\ callerPathList' = callerPathListAfter(callerPathList)
    /\ nCalls' = nCalls + 1
    /\ UNCHANGED << interpVars, fenceVars, runVars, dedupVars, filterVars, segVars,
                    parVars, tailVars >>

NextCalls == CallGenerator

SpecCalls == InitCalls /\ [][NextCalls]_vars

-----------------------------------------------------------------------------
(* SpecParallel: two invocations of generateViaFence, each in its own      *)
(* thread and with its own callback vFunc, on one straight trace,          *)
(* viafence.py 332-382.  The threads interleave between statements.        *)

\* largest pitch of an invocation
MaxParPitch == 2

Invocations == { 1, 2 }

\* vFunc of the invocation
callbackOf(k) == IF k = 1 THEN "a" ELSE "b"

\* pathList and viaOffset of both invocations
ParPathList == << Trace(<< -2, 1 >>, << 1, 0 >>, 2) >>
ParOffset == 1

\* the lines of the calls of verbose that generateViaFence makes for one
\* straight trace: one polygon, its trimming, and two fence paths
verboseCalls == << 343, 280, 358, 359, 360, 374, 374 >>

InitParallel ==
    /\ verboseFunc = "unset"
    /\ parPc = [ k \in Invocations |-> 0 ]
    /\ parPitch \in [ Invocations -> 1 .. MaxParPitch ]
    /\ parResult = [ k \in Invocations |-> << >> ]
    /\ received = {}
    /\ callerPathList = << >> /\ nCalls = 0 /\ returned = {}
    /\ pc = "idle" /\ clipper \in LibChoices
    /\ pathList = << >> /\ viaOffset = 0 /\ viaPitch = 0 /\ numRows = 0
    /\ rowSpacing = << >> /\ rowIdx = 0 /\ allViaPoints = << >> /\ rowVias = << >>
    /\ viaPoints = << >> /\ uniq = << >> /\ viaSize = 0 /\ viaPointsSafe = << >>
    /\ IdleInterp /\ IdleFence /\ IdleDedup /\ IdleFilter /\ IdleSegments
    /\ IdleTail

\* global verboseFunc; verboseFunc = vFunc
SetVerboseFunc(k) ==
    /\ parPc[k] = 0
    /\ verboseFunc' = callbackOf(k)
    /\ parPc' = [ parPc EXCEPT ![k] = 1 ]
    /\ UNCHANGED << parPitch, parResult, received, callerPathList, nCalls, returned,
                    interpVars, fenceVars, runVars, dedupVars, filterVars, segVars,
                    tailVars >>

\* verbose(...): verboseFunc(object, ...) with the global as it is now
Verbose(k) ==
    /\ parPc[k] \in 1 .. Len(verboseCalls)
    /\ received' = received \cup { << verboseFunc, k, verboseCalls[parPc[k]] >> }
    /\ parPc' = [ parPc EXCEPT ![k] = @ + 1 ]
    /\ UNCHANGED << parPitch, parResult, callVars,
                    interpVars, fenceVars, runVars, dedupVars, filterVars, segVars,
                    tailVars >>

\* return viaPoints
ReturnViaPoints(k) ==
    /\ parPc[k] = Len(verboseCalls) + 1
    /\ parResult' = [ parResult EXCEPT
                        ![k] = << generateViaFence(ParPathList, ParOffset, parPitch[k],
                                                   clipper) >> ]
    /\ parPc' = [ parPc EXCEPT ![k] = Len(verboseCalls) + 2 ]
    /\ UNCHANGED << parPitch, received, callVars,
                    interpVars, fenceVars, runVars, dedupVars, filterVars, segVars,
                    tailVars >>

NextParallel ==
    \E k \in Invocations : SetVerboseFunc(k) \/ Verbose(k) \/ ReturnViaPoints(k)

SpecParallel == InitParallel /\ [][NextParallel]_vars

\* C20: two interleaved invocations with different callbacks each return
\* the candidates they return alone, and every intermediate object an
\* invocation reports is received by the callback of that invocation.
C20_OwnCallbackOnly ==
    /\ \A k \in Invocations :
         parResult[k] # << >> =>
           parResult[k][1] = generateViaFence(ParPathList, ParOffset, parPitch[k],
                                              clipper)
    /\ \A e \in received : e[1] = callbackOf(e[2])

-----------------------------------------------------------------------------
(* Fence extraction of generateViaFence, viafence.py 351-356: the polygon  *)
(* edges that touch a leaf vertex are found and the polygon is split at    *)
(* them.  The polygons are the trimmed polygons of one straight trace and  *)
(* some polygons with more edges, the points are leaf vertices or points   *)
(* on chosen edges.                                                        *)

MaxTouch == 3
MaxSplitLen == 2

\* vertices of simple polygons whose edge midpoints have integer coordinates
PolyRect == << Pt(0, 0), Pt(4, 0), Pt(4, 2), Pt(0, 2) >>
PolyEll == << Pt(0, 0), Pt(4, 0), Pt(4, 2), Pt(2, 2), Pt(2, 4), Pt(0, 4) >>
PolyOct == << Pt(2, 0), Pt(4, 0), Pt(6, 2), Pt(6, 4), Pt(4, 6), Pt(2, 6), Pt(0, 4),
              Pt(0, 2) >>
PolyTri == << Pt(0, 0), Pt(4, 0), Pt(0, 4) >>
PolyPool == { PolyTri, PolyRect, PolyEll, PolyOct }

\* the library's choice of start vertex and orientation
Rotated(poly, r, rev) ==
    LET rot == [ k \in 1 .. Len(poly) |-> poly[((k - 1 + r) % Len(poly)) + 1] ]
    IN  IF rev THEN [ k \in 1 .. Len(poly) |-> rot[Len(poly) + 1 - k] ] ELSE rot

MidPoint(a, b) == << RDiv(RAdd(a[1], b[1]), R(2)), RDiv(RAdd(a[2], b[2]), R(2)) >>

\* the midpoints of the edges of a polygon, and its first vertex
ProbePoints(poly) ==
    [ k \in 1 .. Len(poly) + 1 |->
        IF k > Len(poly) THEN poly[1]
        ELSE MidPoint(poly[k], poly[(k % Len(poly)) + 1]) ]

\* the lists of at most MaxTouch probe points, in the order of the polygon
ProbeLists(poly) ==
    LET probes == ProbePoints(poly)
    IN  { [ k \in 1 .. Len(sel) |-> probes[sel[k]] ] :
            sel \in { q \in UNION { [ 1 .. n -> 1 .. Len(probes) ] : n \in 0 .. MaxTouch } :
                        \A k \in 1 .. Len(q) - 1 : q[k] < q[k + 1] } }

SplitTraces ==
    { Trace(start, dir, len) : start \in TraceStarts, dir \in TraceDirs,
                               len \in 1 .. MaxSplitLen }

InitSplit ==
    /\ spc = "poly"
    /\ \/ \E trace \in SplitTraces, d \in 1 .. MaxOffset, lib \in LibChoices :
            /\ splitTrace = trace
            /\ leafVertexList = getLeafVertices(<< trace >>).vertices
            /\ offsetPoly = trimFlushPolygonAtVertices(
                                expandPathsToPolygons(<< trace >>, d)[1], lib)
       \/ \E poly \in PolyPool, rev \in BOOLEAN :
            \E r \in 0 .. Len(poly) - 1 :
                /\ splitTrace = << >>
                /\ offsetPoly = Rotated(poly, r, rev)
                /\ leafVertexList \in ProbeLists(offsetPoly)
    /\ buttLineIdxList = << >> /\ fencePaths = << >>
    /\ IdleInterp /\ IdleFence /\ IdleRun /\ IdleDedup /\ IdleFilter
    /\ IdleSegments /\ IdleCalls /\ IdleParallel /\ IdleLeaves /\ IdleInstance
    /\ IdleDialog

\* viafence.py 355
FindButtLines ==
    /\ spc = "poly"
    /\ buttLineIdxList' = getPathsThroughPoints(offsetPoly, leafVertexList)
    /\ spc' = "touched"
    /\ UNCHANGED << splitTrace, offsetPoly, leafVertexList, fencePaths,
                    interpVars, fenceVars, runVars, dedupVars, filterVars, segVars,
                    callVars, parVars, leafVars, instanceVars, dialogVars >>

\* viafence.py 356
SplitAtButtLines ==
    /\ spc = "touched"
    /\ fencePaths' = splitPathByPaths(offsetPoly, buttLineIdxList)
    /\ spc' = "split"
    /\ UNCHANGED << splitTrace, offsetPoly, leafVertexList, buttLineIdxList,
                    interpVars, fenceVars, runVars, dedupVars, filterVars, segVars,
                    callVars, parVars, leafVars, instanceVars, dialogVars >>

NextSplit == FindButtLines \/ SplitAtButtLines

SpecSplit == InitSplit /\ [][NextSplit]_vars

\* a point with integer coordinates as a pair of integers
IntPt(pt) == << pt[1][1], pt[2][1] >>

\* the edges of the polygon, each as the pair of its end vertices
PolyEdges(poly) == { << poly[k], poly[(k % Len(poly)) + 1] >> : k \in 1 .. Len(poly) }

\* the point lies on the closed segment of the edge
Touches(point, edge) ==
    /\ CrossAt(IntPt(edge[1]), IntPt(edge[2]), IntPt(point)) = 0
    /\ DotAt(IntPt(edge[1]), IntPt(edge[2]), IntPt(point)) >= 0
    /\ DotAt(IntPt(edge[1]), IntPt(edge[2]), IntPt(point))
           <= NormSq(IntPt(edge[1]), IntPt(edge[2]))

TouchEdges == { e \in PolyEdges(offsetPoly) : \E p \in Range(leafVertexList) : Touches(p, e) }

Adjacent(e, f) == e # f /\ ({ e[1], e[2] } \cap { f[1], f[2] }) # {}

\* the edges a path runs along
PathEdges(path) == { << path[k], path[k + 1] >> : k \in 1 .. Len(path) - 1 }

\* how many times the fence paths run along the edge
TimesInFence(e) ==
    Cardinality({ << i, k >> \in (1 .. Len(fencePaths)) \X (1 .. Len(offsetPoly)) :
                    /\ k < Len(fencePaths[i])
                    /\ << fencePaths[i][k], fencePaths[i][k + 1] >> = e })

\* on which side of the trace the point lies: 1 left, -1 right, 0 on its line
SideOfTrace(pt) ==
    LET c == CrossAt(IntPt(splitTrace[1]), IntPt(splitTrace[2]), IntPt(pt))
    IN  IF c > 0 THEN 1 ELSE IF c < 0 THEN -1 ELSE 0

\* C21: for the trimmed polygon of one straight path the split gives exactly
\* two fence paths, one on either side of the path; for k >= 1 touch edges no two
\* of which share a vertex it gives exactly k paths, each a run of polygon edges
\* none of which is a touch edge, and every other polygon edge is in exactly one
\* of them, once.
C21_SplitAtTouchEdges ==
    spc = "split" =>
        /\ splitTrace # << >> =>
              /\ Len(fencePaths) = 2
              /\ \E side \in { -1, 1 } :
                    /\ \A v \in Range(fencePaths[1]) : SideOfTrace(v) = side
                    /\ \A v \in Range(fencePaths[2]) : SideOfTrace(v) = -side
        /\ (TouchEdges # {} /\ \A e, f \in TouchEdges : ~Adjacent(e, f)) =>
              /\ Len(fencePaths) = Cardinality(TouchEdges)
              /\ \A i \in 1 .. Len(fencePaths) :
                    /\ Len(fencePaths[i]) >= 2
                    /\ PathEdges(fencePaths[i]) \subseteq PolyEdges(offsetPoly) \ TouchEdges
              /\ \A e \in PolyEdges(offsetPoly) \ TouchEdges : TimesInFence(e) = 1

C21_Witness ==
    /\ spc = "split" /\ splitTrace = << >>
    /\ Cardinality(TouchEdges) = MaxTouch /\ \A e, f \in TouchEdges : ~Adjacent(e, f)
    /\ << PyAt(offsetPoly, -1), PyAt(offsetPoly, 0) >> \in TouchEdges
    /\ Len(fencePaths) = MaxTouch

-----------------------------------------------------------------------------
(* The spacing of the candidates of a sub path (SpecFence).                 *)

\* a Python index of the fence path as an index from 0
FromZero(idx) == IF idx < 0 THEN Len(fencePath) + idx ELSE idx

\* the sub path between the j-th fixed point and the next one
SubPathAfter(j) ==
    SubSeq(fencePath, FromZero(fixPointIdxList[j]) + 1, FromZero(fixPointIdxList[j + 1]) + 1)

\* the point at distance dist along the path, walking its segments in turn
RECURSIVE PointAtDistance(_, _)
PointAtDistance(path, dist) ==
    LET segLen == R(getLineLength(path[2], path[1]))
    IN  IF Len(path) = 2 \/ RLeq(dist, segLen)
        THEN << RAdd(path[1][1], RMul(RDiv(dist, segLen), RSub(path[2][1], path[1][1]))),
                RAdd(path[1][2], RMul(RDiv(dist, segLen), RSub(path[2][2], path[1][2]))) >>
        ELSE PointAtDistance(Tail(path), RSub(dist, segLen))

\* the length of the sub path after fixed point j, and how many pitches fit
SubLength(j) == PathLength(SubPathAfter(j))[1]
PitchesIn(j) == SubLength(j) \div fpPitch
InteriorCount(j) == IF PitchesIn(j) >= 1 THEN PitchesIn(j) - 1 ELSE 0

\* where the candidates of the sub path after fixed point j start in viaPoints
RECURSIVE CandidatesBefore(_)
CandidatesBefore(j) ==
    IF j = 1 THEN Len(fixPointIdxList)
    ELSE CandidatesBefore(j - 1) + InteriorCount(j - 1)

\* C22: the candidates of a sub path of length L lie, with its two fixed end
\* points, at distances along the sub path that are at least the pitch p apart
\* and less than 2p apart when L >= p; a sub path with L < p has no interior
\* candidate; distributing never raises.
C22_SpacingBetweenPitchAndTwice ==
    fpc \in {"done", "raised"} =>
        /\ fpc = "done"
        /\ Len(fpViaPoints) = CandidatesBefore(Len(fixPointIdxList))
        /\ \A j \in 1 .. Len(fixPointIdxList) - 1 :
              LET L == SubLength(j)
                  n == PitchesIn(j)
              IN  /\ L < fpPitch => InteriorCount(j) = 0
                  /\ L >= fpPitch =>
                        /\ fpPitch * n <= L /\ L < 2 * fpPitch * n
                        /\ \A k \in 1 .. n - 1 :
                              fpViaPoints[CandidatesBefore(j) + k]
                                  = PointAtDistance(SubPathAfter(j), Rat(k * L, n))

\* C22 happens: a fence path with a bend whose sub paths are one shorter than
\* the pitch and one with interior candidates more than the pitch apart
C22_Witness ==
    /\ fpc = "done" /\ Len(fixPointIdxList) >= 3
    /\ \E j \in 1 .. Len(fixPointIdxList) - 1 : SubLength(j) < fpPitch
    /\ \E j \in 1 .. Len(fixPointIdxList) - 1 :
          /\ InteriorCount(j) >= 1 /\ SubLength(j) % fpPitch # 0
          /\ Len(SubPathAfter(j)) >= 3

-----------------------------------------------------------------------------
(* The rejection counters of filter_vias_precise (SpecFilter).              *)

RejectionCauses == { "pad", "same_net_track", "diff_net_track", "existing_via" }

RejectedTotal(reasons) ==
    reasons.pad + reasons.same_net_track + reasons.diff_net_track + reasons.existing_via

\* C23: while and after the filter runs, the candidates accepted and the four
\* rejection counters add up to the candidates processed; processing a
\* candidate either accepts it and leaves the counters alone, or leaves the
\* accepted list alone and adds one to exactly one counter.
C23_CountersAddUp ==
    [][ /\ pc' \in { "filtering", "filtered" } =>
              Len(accepted') + RejectedTotal(rejected_reasons') = fIdx'
        /\ fIdx' = fIdx + 1 =>
              \/ /\ accepted' = Append(accepted, candidate_points[fIdx'])
                 /\ rejected_reasons' = rejected_reasons
              \/ /\ accepted' = accepted
                 /\ \E cause \in RejectionCauses :
                       /\ rejected_reasons'[cause] = rejected_reasons[cause] + 1
                       /\ \A other \in RejectionCauses \ { cause } :
                             rejected_reasons'[other] = rejected_reasons[other]
      ]_vars

\* C23 happens: all candidates processed, one accepted and one rejected by a track
C23_Witness ==
    /\ pc = "filtered" /\ fIdx = MaxFilterCands
    /\ Len(accepted) = 1
    /\ rejected_reasons.same_net_track + rejected_reasons.diff_net_track = 1

-----------------------------------------------------------------------------
(* The fixed points and the sub paths of a fence path (SpecFence).          *)

\* C24: the fixed points are the first vertex, the bend points that survived
\* the sharp-junction filter in increasing order, and the last vertex; all of
\* them are emitted as candidates; the sub paths are the runs of the fence path
\* from each fixed point to the next, so that each starts at the vertex where
\* the one before ended and every edge of the fence path is in exactly one.
C24_FixedPointsAndSubPaths ==
    fpc \in { "fixed", "done", "raised" } =>
        LET n == Len(fixPointIdxList)
        IN  /\ n = Len(bendPointIdxList) + 2
            /\ FromZero(fixPointIdxList[1]) = 0
            /\ FromZero(fixPointIdxList[n]) = Len(fencePath) - 1
            /\ \A k \in 1 .. Len(bendPointIdxList) :
                  fixPointIdxList[k + 1] = bendPointIdxList[k]
            /\ \A k \in 1 .. n - 1 :
                  FromZero(fixPointIdxList[k]) < FromZero(fixPointIdxList[k + 1])
            /\ Len(fpViaPoints) >= n
            /\ \A k \in 1 .. n :
                  fpViaPoints[k] = fencePath[FromZero(fixPointIdxList[k]) + 1]
            /\ fpc # "fixed" =>
                  /\ Len(fpSubPaths) = n - 1
                  /\ \A j \in 1 .. n - 1 : fpSubPaths[j] = SubPathAfter(j)
                  /\ \A j \in 1 .. n - 2 :
                        fpSubPaths[j + 1][1] = fpSubPaths[j][Len(fpSubPaths[j])]
                  /\ \A e \in 1 .. Len(fencePath) - 1 :
                        Cardinality({ j \in 1 .. n - 1 :
                                        /\ FromZero(fixPointIdxList[j]) + 1 <= e
                                        /\ e < FromZero(fixPointIdxList[j + 1]) + 1 }) = 1

\* C24 happens: a fence path with a surviving bend point between two sub paths
\* of more than one edge
C24_Witness ==
    /\ fpc = "done" /\ Len(fixPointIdxList) = 3 /\ Len(fencePath) > 3
    /\ Len(fpSubPaths) = 2

-----------------------------------------------------------------------------
(* The bend points of a fence path (SpecFence).                             *)

\* the segment into vertex idx and the segment out of it (idx counts from 0)
SegmentInto(idx) == << fencePath[idx + 1][1][1] - fencePath[idx][1][1],
                       fencePath[idx + 1][2][1] - fencePath[idx][2][1] >>
SegmentOutOf(idx) == << fencePath[idx + 2][1][1] - fencePath[idx + 1][1][1],
                        fencePath[idx + 2][2][1] - fencePath[idx + 1][2][1] >>

\* the two segments at vertex idx turn by more than the tolerance: the cosine
\* of the turn, their scalar product over the product of their lengths, is
\* below the cosine of the tolerance (0.93969262 for 20 degrees)
TurnsMoreThanTolerance(idx) ==
    LET u == SegmentInto(idx)
        w == SegmentOutOf(idx)
    IN  (u[1] * w[1] + u[2] * w[2]) * 10000
            < 9397 * Hypot(u[1], u[2]) * Hypot(w[1], w[2])

\* C25: getPathVertices returns, in increasing order, exactly the interior
\* vertex indices at which the path turns by more than the tolerance of 20
\* degrees; the first and the last vertex are not returned, nor is a vertex on
\* a straight run, whatever the direction of the run.
C25_BendsAreTheTurns ==
    fpc = "bends" =>
        /\ \A k \in 1 .. Len(bendPointIdxList) - 1 :
              bendPointIdxList[k] < bendPointIdxList[k + 1]
        /\ Range(bendPointIdxList)
              = { idx \in 1 .. Len(fencePath) - 2 : TurnsMoreThanTolerance(idx) }
        /\ \A idx \in 1 .. Len(fencePath) - 2 :
              SegmentInto(idx)[1] * SegmentOutOf(idx)[2]
                    = SegmentInto(idx)[2] * SegmentOutOf(idx)[1]
                  /\ SegmentInto(idx)[1] * SegmentOutOf(idx)[1]
                        + SegmentInto(idx)[2] * SegmentOutOf(idx)[2] > 0
              => idx \notin Range(bendPointIdxList)

\* C25 happens: a straight run in the -x direction, where the slopes of the two
\* segments are pi and 0, followed by a bend
C25_Witness ==
    /\ fpc = "bends" /\ Len(fencePath) = 4
    /\ SegmentInto(1)[2] = 0 /\ SegmentInto(1)[1] < 0
    /\ SegmentOutOf(1)[2] = 0 /\ SegmentOutOf(1)[1] < 0
    /\ bendPointIdxList = << 2 >>

-----------------------------------------------------------------------------
(* getLeafVertices on lists of short paths, viafence.py 247-262.            *)

MaxLeafPaths == 2
MaxLeafSegs == 2

LeafStarts == { Pt(0, 0), Pt(1, 1) }
LeafSteps == { << 1, 0 >>, << 0, -1 >>, << -1, 0 >> }
LeafPaths == UNION { PathsFrom(start, LeafSteps, MaxLeafSegs) : start \in LeafStarts }
LeafPathLists == UNION { [ 1 .. n -> LeafPaths ] : n \in 0 .. MaxLeafPaths }

InitLeaves ==
    /\ lpc = "call"
    /\ leafPathList \in LeafPathLists
    /\ leafVertices = << >> /\ leafVertexSlopes = << >>
    /\ IdleInterp /\ IdleFence /\ IdleRun /\ IdleDedup /\ IdleFilter
    /\ IdleSegments /\ IdleCalls /\ IdleParallel /\ IdleSplit /\ IdleInstance
    /\ IdleDialog

\* leafVertices, leafVertexSlopes = getLeafVertices(pathList)
GetLeafVertices ==
    /\ lpc = "call"
    /\ leafVertices' = getLeafVertices(leafPathList).vertices
    /\ leafVertexSlopes' = getLeafVertices(leafPathList).slopes
    /\ lpc' = "returned"
    /\ UNCHANGED << leafPathList, interpVars, fenceVars, runVars, dedupVars,
                    filterVars, segVars, callVars, parVars, splitVars, instanceVars,
                    dialogVars >>

NextLeaves == GetLeafVertices

SpecLeaves == InitLeaves /\ [][NextLeaves]_vars

\* the ends of the paths in the order the loop visits them: << path, end >>
\* with end 0 for the first vertex and 1 for the last
LeafEnds == [ i \in 1 .. 2 * Len(leafPathList) |-> << (i + 1) \div 2, (i + 1) % 2 >> ]

EndVertex(e) ==
    IF e[2] = 0 THEN leafPathList[e[1]][1]
    ELSE leafPathList[e[1]][Len(leafPathList[e[1]])]

EndNeighbour(e) ==
    IF e[2] = 0 THEN leafPathList[e[1]][2]
    ELSE leafPathList[e[1]][Len(leafPathList[e[1]]) - 1]

\* another path of the list starts or ends at the point of the end e
OtherPathEndsAt(e) ==
    \E j \in 1 .. Len(leafPathList) :
        /\ j # e[1]
        /\ EndVertex(e) \in { leafPathList[j][1], leafPathList[j][Len(leafPathList[j])] }

\* how many vertices of all the paths are at the point
VerticesAt(point) ==
    Cardinality({ << j, k >> \in (1 .. Len(leafPathList)) \X (1 .. MaxLeafSegs + 1) :
                    k <= Len(leafPathList[j]) /\ leafPathList[j][k] = point })

\* C26 as stated: an end of a path is returned exactly when no other path of
\* the list starts or ends at its point.
C26_LeafIffNoOtherEnd ==
    lpc = "returned" =>
        \A i \in 1 .. Len(LeafEnds) :
            EndVertex(LeafEnds[i]) \in Range(leafVertices) <=> ~OtherPathEndsAt(LeafEnds[i])

\* C26: getLeafVertices returns, in the order of the paths, the ends of the
\* paths whose point is the point of no other vertex of any path of the list,
\* end or interior, each with the slope of the segment from the leaf to its
\* neighbouring vertex; an end shared by two paths is not returned.
C26_LeafIffSingleVertex ==
    lpc = "returned" =>
        LET leafEnds == SelectSeq(LeafEnds, LAMBDA e : VerticesAt(EndVertex(e)) = 1)
        IN  /\ Len(leafVertices) = Len(leafEnds)
            /\ Len(leafVertexSlopes) = Len(leafEnds)
            /\ \A i \in 1 .. Len(leafEnds) :
                  /\ leafVertices[i] = EndVertex(leafEnds[i])
                  /\ leafVertexSlopes[i]
                        = Atan2(EndNeighbour(leafEnds[i])[2][1] - EndVertex(leafEnds[i])[2][1],
                                EndNeighbour(leafEnds[i])[1][1] - EndVertex(leafEnds[i])[1][1])
            /\ \A i \in 1 .. Len(LeafEnds) :
                  OtherPathEndsAt(LeafEnds[i])
                      => EndVertex(LeafEnds[i]) \notin Range(leafVertices)

\* C26 happens: a path ends on an interior vertex of another path, where no
\* path starts or ends, and is not returned there; its other end is returned
C26_Witness ==
    /\ lpc = "returned" /\ Len(leafPathList) = 2
    /\ Len(leafPathList[1]) = 3 /\ Len(leafPathList[2]) = 2
    /\ leafPathList[2][2] = leafPathList[1][2]
    /\ ~OtherPathEndsAt(<< 2, 1 >>)
    /\ leafPathList[2][2] \notin Range(leafVertices)
    /\ leafPathList[2][1] \in Range(leafVertices)

-----------------------------------------------------------------------------
(* SpecRuns: several Runs on one plugin instance, viafence_action.py       *)
(* 418-629.  The ActionPlugin object lives as long as the editor, so the   *)
(* attributes a Run leaves on self are there when the next Run starts.  A  *)
(* Run opens the dialog with its defaults, and on OK reads the dialog,     *)
(* generates the candidates, de-duplicates them, checks and filters them   *)
(* and places the vias.  The board's clearance may change between Runs.    *)
(* The lengths of the dialog are in tenths of a millimetre.                *)

MaxRuns == 2
MaxRunCands == 3

\* self.viaOffset = pcbnew.FromMM(1.3)
viaOffsetDefault == 13
\* self.viaPitch = pcbnew.FromMM(1.3)
viaPitchDefault == 13
\* an inter-row offset the user types in
InterRowEntry == 20

\* positions the generator returns; two of them are exactly the tolerance of
\* a via of diameter 2 apart, one is not on the integer grid
RunPool == { Pt(0, 0), Pt(2, 0), Pt(12, 0), << Rat(13, 2), R(4) >> }

\* the lists the exact-position de-duplication can leave
UniqLists ==
    { l \in UNION { [1 .. n -> RunPool] : n \in 0 .. MaxRunCands } : dedupExact(l) = l }

InitRuns ==
    /\ pc = "ready" /\ runNo = 0
    /\ selfClearance = << >> /\ selfInterRowOffset = << >> /\ txtInterRowOffset = 0
    /\ dedupedPoints = << >> /\ placed = << >>
    /\ viaSize = 2
    /\ pads = << PadB >>
    /\ tracks \in { << >>, << TrackSame, TrackLong >> }
    /\ existing_vias = << ViaNine >>
    /\ clearance = 0 /\ viaNetId = 0 /\ isRemoveChecked = FALSE
    /\ viaPointsSafe = << >>
    /\ candidate_points = << >> /\ fIdx = 0 /\ accepted = << >>
    /\ rejected_reasons = NoRejections /\ usedClearance = {}
    /\ pathList = << >> /\ viaOffset = 0 /\ viaPitch = 0 /\ numRows = 0
    /\ rowSpacing = << >> /\ rowIdx = 0 /\ allViaPoints = << >> /\ rowVias = << >>
    /\ viaPoints = << >> /\ uniq = << >> /\ clipper = << 0, FALSE >>
    /\ IdleInterp /\ IdleFence /\ IdleDedup
    /\ IdleSegments /\ IdleCalls /\ IdleParallel /\ IdleSplit /\ IdleLeaves
    /\ IdleDialog

\* Run up to reply = self.mainDlg.ShowModal(), viafence_action.py 449-484:
\* the defaults, then selfToMainDialog; c is the clearance of the board's
\* design settings at the time of this Run.  The local variables of the
\* Run before and what is recorded about it start afresh.
OpenDialog ==
    /\ pc = "ready" /\ runNo < MaxRuns
    /\ runNo' = runNo + 1
    /\ \E c \in Clearances : clearance' = c
    /\ viaPitch' = viaPitchDefault /\ viaOffset' = viaOffsetDefault
    /\ numRows' = 1 /\ viaNetId' = 0 /\ isRemoveChecked' = TRUE
    /\ selfInterRowOffset' = IF selfInterRowOffset = << >> THEN << viaOffset' >>
                             ELSE selfInterRowOffset
    /\ txtInterRowOffset' = selfInterRowOffset'[1]
    /\ dedupedPoints' = << >> /\ placed' = << >> /\ usedClearance' = {}
    /\ uniq' = << >> /\ candidate_points' = << >> /\ fIdx' = 0
    /\ accepted' = << >> /\ rejected_reasons' = NoRejections
    /\ pc' = "dialog"
    /\ UNCHANGED << pathList, rowSpacing, rowIdx, allViaPoints, rowVias, viaPoints,
                    viaSize, viaPointsSafe, clipper, pads, tracks, existing_vias,
                    selfClearance,
                    interpVars, fenceVars, dedupVars, segVars, callVars, parVars,
                    splitVars, leafVars, dialogVars >>

\* reply == wx.ID_OK, viafence_action.py 485-591: mainDialogToSelf, the
\* generation and the two de-duplications; the user leaves the inter-row
\* offset as shown or types another one, and u is what the generation gave
ClickOK ==
    /\ pc = "dialog"
    /\ \E entry \in { txtInterRowOffset, InterRowEntry }, checked \in BOOLEAN, u \in UniqLists :
          /\ selfInterRowOffset' = << entry >>
          /\ rowSpacing' = << entry >>
          /\ isRemoveChecked' = checked
          /\ uniq' = u
          /\ viaPointsSafe' = dedupe_points(u, dedupeTolerance(viaSize))
          /\ dedupedPoints' = viaPointsSafe'
    /\ pc' = "safe"
    /\ UNCHANGED << pathList, viaOffset, viaPitch, numRows, rowIdx, allViaPoints, rowVias,
                    viaPoints, viaSize, clipper, pads, tracks, existing_vias, clearance,
                    viaNetId, selfClearance, candidate_points, fIdx, accepted,
                    rejected_reasons, usedClearance, runNo, txtInterRowOffset, placed,
                    interpVars, fenceVars, dedupVars, segVars, callVars, parVars,
                    splitVars, leafVars, dialogVars >>

\* any other reply: nothing is generated
CloseDialog ==
    /\ pc = "dialog"
    /\ pc' = "ready"
    /\ UNCHANGED << pathList, viaOffset, viaPitch, numRows, rowSpacing, rowIdx,
                    allViaPoints, rowVias, viaPoints, uniq, viaSize, viaPointsSafe,
                    clipper, filterVars, interpVars, fenceVars, dedupVars, lateVars >>

\* viaObjList = self.createVias(self.viaPointsSafe, ...), viafence_action.py 602
CreateVias ==
    /\ pc = "filtered"
    /\ placed' = [ k \in 1 .. Len(viaPointsSafe) |-> wxPoint(viaPointsSafe[k]) ]
    /\ pc' = "ready"
    /\ UNCHANGED << pathList, viaOffset, viaPitch, numRows, rowSpacing, rowIdx,
                    allViaPoints, rowVias, viaPoints, uniq, viaSize, viaPointsSafe,
                    clipper, filterVars, runNo, selfInterRowOffset, txtInterRowOffset,
                    dedupedPoints,
                    interpVars, fenceVars, dedupVars, segVars, callVars, parVars,
                    splitVars, leafVars, dialogVars >>

NextRuns ==
    \/ OpenDialog \/ ClickOK \/ CloseDialog
    \/ CheckPads \/ CheckTracks \/ SkipChecks \/ FilterStart \/ FilterStep \/ FilterReturn
    \/ CreateVias

SpecRuns == InitRuns /\ [][NextRuns]_vars

-----------------------------------------------------------------------------
(* Claims about several Runs on one plugin instance (SpecRuns).             *)

\* the candidates of the list that overlap nothing on the board under the
\* clearance the board has in this Run
FreeOfBoard(points) == SelectSeq(points, LAMBDA pt : ~overlapsBoard(pt))

\* the Run has placed its vias
HasPlaced == pc = "ready" /\ runNo > 0 /\ dedupedPoints # << >>

\* C27: every Run shows the same default inter-row offset, the default via
\* offset, whatever was entered in an earlier Run, and the vias a Run places
\* are determined by the candidates, the board and the clearance of that Run
\* alone: they are the de-duplicated candidates that overlap nothing under the
\* clearance the board has in that Run.
C27_NothingKeptBetweenRuns ==
    /\ pc = "dialog" => txtInterRowOffset = viaOffsetDefault
    /\ pc \in { "padsChecked", "tracksChecked" } =>
          Range(FreeOfBoard(dedupedPoints)) \subseteq Range(viaPointsSafe)
    /\ HasPlaced =>
          placed = [ k \in 1 .. Len(FreeOfBoard(dedupedPoints)) |->
                       wxPoint(FreeOfBoard(dedupedPoints)[k]) ]

\* C28: checkPads and checkTracks remove only candidates that
\* filter_vias_precise rejects in the same Run, so that the vias placed with
\* the remove-violations option checked are the vias placed without it, after
\* any earlier Runs and any change of the board's clearance between Runs.
C28_ChecksRemoveOnlyRejected ==
    /\ pc \in { "padsChecked", "tracksChecked" } =>
          \A pt \in Range(dedupedPoints) \ Range(viaPointsSafe) :
              pt \notin Range(filter_vias_precise(dedupedPoints, pads, tracks,
                                                  existing_vias, viaSize, clearance,
                                                  viaNetId))
    /\ pc = "filtered" =>
          viaPointsSafe = filter_vias_precise(dedupedPoints, pads, tracks, existing_vias,
                                              viaSize, clearance, viaNetId)

\* the position of the point in uniq (the points of uniq are distinct)
PositionInUniq(pt) == CHOOSE i \in 1 .. Len(uniq) : uniq[i] = pt

\* the two points are farther apart than the tolerance, as vias are placed
FartherThanTolerance(p, q) ==
    NormSq(wxPoint(p), wxPoint(q)) > dedupeTolerance(viaSize) * dedupeTolerance(viaSize)

-----------------------------------------------------------------------------
(* SpecDialog: the main dialog of one Run, viafence_action.py 474-484 and  *)
(* 611-629.  Run is straight-line code in the GUI thread: once started it   *)
(* runs on until it returns or an exception leaves it, and ShowModal        *)
(* returns when the user closes the dialog.                                 *)

Replies == { "ID_OK", "ID_DELETE", "ID_CANCEL" }

\* texts of the via offset field: the default, one with a decimal comma and
\* one that float() does not accept
OffsetTexts == { "1.3", "2,0", "abc" }

\* vf_config.ini next to the plugin: missing, or present with some of the
\* sections 'params' and 'options'
ConfigFiles ==
    { [ exists |-> FALSE, sections |-> {}, offset |-> "" ] }
    \cup { [ exists |-> TRUE, sections |-> secs, offset |-> "" ] :
             secs \in SUBSET { "params", "options" } }

InitDialog ==
    /\ dlgPc = "start" /\ mainDlg = "none" /\ reply = "none" /\ txtViaOffset = ""
    /\ generationRaised = FALSE /\ raisedBy = "none"
    /\ configFile \in ConfigFiles
    /\ IdleInterp /\ IdleFence /\ IdleRun /\ IdleDedup /\ IdleFilter
    /\ IdleSegments /\ IdleCalls /\ IdleParallel /\ IdleSplit /\ IdleLeaves
    /\ IdleInstance

othersOfDialog ==
    << interpVars, fenceVars, runVars, dedupVars, filterVars, segVars, callVars,
       parVars, splitVars, leafVars, instanceVars >>

\* self.mainDlg = MainDialog(None); selfToMainDialog(); config.read(...)
CreateMainDialog ==
    /\ dlgPc = "start"
    /\ mainDlg' = "created"
    /\ dlgPc' = "shown"
    /\ UNCHANGED << reply, txtViaOffset, generationRaised, configFile, raisedBy,
                    othersOfDialog >>

\* reply = self.mainDlg.ShowModal(): the user edits the fields and closes the
\* dialog with one of the buttons
ShowModal ==
    /\ dlgPc = "shown"
    /\ reply' \in Replies
    /\ txtViaOffset' \in OffsetTexts
    /\ dlgPc' = "replied"
    /\ UNCHANGED << mainDlg, generationRaised, configFile, raisedBy, othersOfDialog >>

\* the branches on reply, viafence_action.py 485-615: on OK mainDialogToSelf
\* converts the texts with float(), which raises ValueError for a text that is
\* no number, and an exception of the generation is caught
HandleReply ==
    /\ dlgPc = "replied"
    /\ IF reply = "ID_OK" /\ txtViaOffset = "abc"
       THEN /\ raisedBy' = "ValueError" /\ dlgPc' = "raised"
            /\ UNCHANGED generationRaised
       ELSE /\ generationRaised' \in IF reply = "ID_OK" THEN BOOLEAN ELSE { FALSE }
            /\ dlgPc' = "handled"
            /\ UNCHANGED raisedBy
    /\ UNCHANGED << mainDlg, reply, txtViaOffset, configFile, othersOfDialog >>

\* viafence_action.py 616-628: config.read, config['params'][...] = ...,
\* config['options'][...] = ..., config.write; indexing a section the file
\* does not have raises KeyError
WriteConfig ==
    /\ dlgPc = "handled"
    /\ IF { "params", "options" } \subseteq configFile.sections
       THEN /\ configFile' = [ configFile EXCEPT !.offset = txtViaOffset ]
            /\ dlgPc' = "written"
            /\ UNCHANGED raisedBy
       ELSE /\ raisedBy' = "KeyError" /\ dlgPc' = "raised"
            /\ UNCHANGED configFile
    /\ UNCHANGED << mainDlg, reply, txtViaOffset, generationRaised, othersOfDialog >>

\* self.mainDlg.Destroy(), and Run returns
DestroyMainDialog ==
    /\ dlgPc = "written"
    /\ mainDlg' = "destroyed"
    /\ dlgPc' = "returned"
    /\ UNCHANGED << reply, txtViaOffset, generationRaised, configFile, raisedBy,
                    othersOfDialog >>

NextDialog ==
    CreateMainDialog \/ ShowModal \/ HandleReply \/ WriteConfig \/ DestroyMainDialog

SpecDialog == InitDialog /\ [][NextDialog]_vars

\* Run does not stop between two of its statements
SpecDialogFair == SpecDialog /\ WF_vars(NextDialog)

\* C30: in every execution of Run, once the main dialog is created it is
\* eventually destroyed, whichever button closed it, whether or not the
\* generation raised, and whatever vf_config.ini holds.
C30_DialogEventuallyDestroyed == (mainDlg = "created") ~> (mainDlg = "destroyed")

=============================================================================
